---- MODULE Spec2Model ----
(***************************************************************************)
(* A model of kernel/sched/qhmp_fair.c: the per-CPU fair run-queue with    *)
(* group scheduling and CFS bandwidth control (specifications Spec and     *)
(* SpecBw), and the migration of tasks between run-queues (SpecMig).       *)
(* Parts of the file that read no run-queue of that machine are machines   *)
(* of their own: the distribution of bandwidth by the timers (SpecDist),   *)
(* fairness between two tasks (SpecFair), the choice of the next entity    *)
(* (SpecPick), the decayed load averages (SpecAvg), update_curr() under    *)
(* clock readings (SpecCurr), writes to the HMP tunables (SpecTune), the   *)
(* choice of a CPU by select_best_cpu() (SpecSel), the imbalance that      *)
(* calculate_imbalance() computes (SpecImb), unthrottle_offline_cfs_rqs()  *)
(* (SpecOff), detach_tasks() (SpecDetach), the accounting of               *)
(* load_balance() on a domain (SpecLb), the requests for an active         *)
(* balance of one run queue (SpecAb, with fairness SpecAbFair), the walk   *)
(* of the throttled list at hot-unplug (SpecDl), the order of the locks    *)
(* (SpecLk), return_cfs_rq_runtime() (SpecRet), check_preempt_tick()       *)
(* (SpecPt), groups created under a throttled parent (SpecTc), the         *)
(* up- and down-migration thresholds (SpecHys), the period timer against   *)
(* the CPUs that throttle (SpecTm), migrations against changes of the      *)
(* affinity mask (SpecAff) and the counts of big and small tasks           *)
(* (SpecCnt).                                                              *)
(*                                                                         *)
(* Times are nanoseconds, as in the source.  A u64 is kept modulo U64Mod   *)
(* (a narrower word than the source's 2^64, wide enough for every run the  *)
(* model makes), and an (s64) cast is the two's complement reading of it.  *)
(* Schedstats are not state of this model: nothing modelled here reads     *)
(* them.                                                                   *)
(***************************************************************************)
EXTENDS Integers, Sequences, FiniteSets, TLC

NULL == "NULL"

\* ------------------------------------------------------------ topology
\* One CPU; the root task group and two nested groups g1 > g2.  A group's
\* per-CPU entity (tg->se[cpu]) and queue (tg->cfs_rq[cpu]) carry its name.
Tasks == {"t1", "t2", "t3"}
Groups == {"g1", "g2"}
Queues == {"root"} \cup Groups
Entities == Tasks \cup Groups

TgParent == [g \in Groups |-> IF g = "g1" THEN "root" ELSE "g1"]
TaskTg == [t \in Tasks |-> CASE t = "t1" -> "root" [] t = "t2" -> "g1" [] OTHER -> "g2"]

\* ------------------------------------------------------------- tunables
sysctl_sched_latency == 6000000
sysctl_sched_min_granularity == 750000
sched_nr_latency == 8
sysctl_sched_wakeup_granularity == 1000000
sysctl_sched_cfs_bandwidth_slice == 5000
NSEC_PER_USEC == 1000
NICE_0_LOAD == 1024
MIN_SHARES == 2
min_cfs_rq_runtime == 1000000
RUNTIME_INF == -1

\* sched_feat() defaults
GENTLE_FAIR_SLEEPERS == TRUE
START_DEBIT == TRUE
NEXT_BUDDY == FALSE
LAST_BUDDY == TRUE
WAKEUP_PREEMPTION == TRUE
STRICT_SKIP_BUDDY == FALSE

\* flags
ENQUEUE_WAKEUP == "WAKEUP"
DEQUEUE_SLEEP == "SLEEP"
NOFLAG == "NONE"

\* ----------------------------------------------------------- arithmetic
U64Mod == 2 ^ 30
U64(x) == x % U64Mod
S64(x) == LET y == x % U64Mod IN IF y >= U64Mod \div 2 THEN y - U64Mod ELSE y

Min(a, b) == IF a < b THEN a ELSE b
Max(a, b) == IF a > b THEN a ELSE b

max_vruntime(maxv, v) == IF S64(v - maxv) > 0 THEN v ELSE maxv
min_vruntime(minv, v) == IF S64(v - minv) < 0 THEN v ELSE minv

\* delta_exec * weight / lw.weight
calc_delta(delta_exec, weight, lw) ==
    (delta_exec \div lw) * weight + ((delta_exec % lw) * weight) \div lw

\* calc_delta_fair() that leaves the weight out
calc_delta_fair_unweighted(delta, w) == delta

calc_delta_fair(delta, w) ==
    IF w # NICE_0_LOAD THEN calc_delta(delta, NICE_0_LOAD, w) ELSE delta

sched_cfs_bandwidth_slice == sysctl_sched_cfs_bandwidth_slice * NSEC_PER_USEC

\* ------------------------------------------------------------ hierarchy
cfs_rq_of(e) == IF e \in Tasks THEN TaskTg[e] ELSE TgParent[e]
parent_entity(e) == IF cfs_rq_of(e) = "root" THEN NULL ELSE cfs_rq_of(e)
group_cfs_rq(e) == IF e \in Groups THEN e ELSE NULL
entity_is_task(e) == e \in Tasks
tg_se(q) == IF q = "root" THEN NULL ELSE q

RECURSIVE TgAncestors(_)
TgAncestors(q) == IF q = "root" THEN {} ELSE {TgParent[q]} \cup TgAncestors(TgParent[q])
\* the groups walk_tg_tree_from(tg) visits: tg and everything below it
TgSubtree(q) == {g \in Queues : g = q \/ q \in TgAncestors(g)}

\* se, cfs_rq, cfs_b, rq: the structures of the same names on the modelled
\* CPU; task: what each task is doing; now: the time; obs: what the handlers
\* were seen to do (read by properties only); mig: the two-CPU migration
\* machine of SpecMig; dist: the bandwidth pool of SpecDist;
\* avg: the decayed averages of SpecAvg;
\* tune: the HMP tunables of SpecTune;
\* hmp: the run queues and tunables of SpecSel;
\* imb: the group statistics of SpecImb;
\* offline: whether rq_offline_fair() has run in SpecOff;
\* det: the env and source run queue of SpecDetach;
\* lb: the sched_domain and busiest run queue of SpecLb;
\* ab: the run queue, callers and stopper of SpecAb;
\* dl: the queues, throttled list and timer of SpecDl;
\* lk: the locks and threads of SpecLk;
\* ret: the balances before the call of SpecRet;
\* pt: the ticks of SpecPt;
\* tc: the groups created late in SpecTc;
\* hy: the task, the thresholds and the last answer in SpecHys;
\* tm: the period timer, cfs_b->lock and the threads of SpecTm;
\* af: the task, its affinity mask and the active balance of SpecAff;
\* cn: the tasks, queues, tunables and counts of SpecCnt.
\* ops counts the task operations of a run.
VARIABLES se, cfs_rq, cfs_b, rq, task, now, ops, obs, mig, dist, avg, tune, hmp, imb, offline, det, lb, ab, dl, lk, ret, pt, tc, hy, tm, af, cn
vars == <<se, cfs_rq, cfs_b, rq, task, now, ops, obs, mig, dist, avg, tune, hmp, imb, offline, det, lb, ab, dl, lk, ret, pt, tc, hy, tm, af, cn>>

St == [se |-> se, cfs_rq |-> cfs_rq, cfs_b |-> cfs_b, rq |-> rq, obs |-> obs]

\* Statements in sequence: With([x \in {v} |-> rest]) is rest with x naming
\* the value v of the statement before it.
With(f) == f[CHOOSE v \in DOMAIN f : TRUE]

\* --------------------------------------------------------------- rbtree
entity_before(s, a, b) == S64(s.se[a].vruntime - s.se[b].vruntime) < 0

\* The timeline as the in-order sequence of the tree.  The descent of
\* __enqueue_entity goes right of every entry the new one is not before.
RECURSIVE InsertPos(_, _, _, _)
InsertPos(s, tree, e, i) ==
    IF i > Len(tree) THEN i
    ELSE IF entity_before(s, e, tree[i]) THEN i
    ELSE InsertPos(s, tree, e, i + 1)

InsertAt(seq, i, x) == SubSeq(seq, 1, i - 1) \o <<x>> \o SubSeq(seq, i, Len(seq))
Remove(seq, x) == SelectSeq(seq, LAMBDA y : y # x)
InSeq(seq, x) == \E i \in 1..Len(seq) : seq[i] = x

__enqueue_entity(s, q, e) ==
    [s EXCEPT !.cfs_rq[q].tasks_timeline =
        InsertAt(@, InsertPos(s, s.cfs_rq[q].tasks_timeline, e, 1), e)]

__dequeue_entity(s, q, e) ==
    [s EXCEPT !.cfs_rq[q].tasks_timeline = Remove(@, e)]

__pick_first_entity(s, q) ==
    IF s.cfs_rq[q].tasks_timeline = <<>> THEN NULL ELSE Head(s.cfs_rq[q].tasks_timeline)

\* rb_next(se) in its queue's timeline
__pick_next_entity(s, q, e) ==
    LET t == s.cfs_rq[q].tasks_timeline
        i == CHOOSE k \in 1..Len(t) : t[k] = e
    IN IF i < Len(t) THEN t[i + 1] ELSE NULL

\* update_min_vruntime() without the clamp of its last line
update_min_vruntime_unclamped(s, q) ==
    LET c == s.cfs_rq[q]
        left == __pick_first_entity(s, q)
        v0 == IF c.curr # NULL THEN s.se[c.curr].vruntime ELSE c.min_vruntime
        v1 == IF left # NULL
              THEN (IF c.curr = NULL THEN s.se[left].vruntime
                    ELSE min_vruntime(v0, s.se[left].vruntime))
              ELSE v0
    IN [s EXCEPT !.cfs_rq[q].min_vruntime = v1]

update_min_vruntime(s, q) ==
    LET c == s.cfs_rq[q]
        left == __pick_first_entity(s, q)
        v0 == IF c.curr # NULL THEN s.se[c.curr].vruntime ELSE c.min_vruntime
        v1 == IF left # NULL
              THEN (IF c.curr = NULL THEN s.se[left].vruntime
                    ELSE min_vruntime(v0, s.se[left].vruntime))
              ELSE v0
    IN [s EXCEPT !.cfs_rq[q].min_vruntime = max_vruntime(c.min_vruntime, v1)]


\* ------------------------------------------------------------- hrtimer
\* hrtimer_forward(): the expiry moved past now by whole intervals
hrtimer_forward(expires, tnow, interval) ==
    IF tnow < expires THEN expires
    ELSE expires + interval * (((tnow - expires) \div interval) + 1)

resched_curr(s) == [s EXCEPT !.rq.need_resched = TRUE]

\* ----------------------------------------------------- CFS bandwidth (1)
cfs_rq_throttled(s, q) == s.cfs_rq[q].throttled
throttled_hierarchy(s, q) == s.cfs_rq[q].throttle_count # 0

__refill_cfs_bandwidth_runtime(s, g) ==
    IF s.cfs_b[g].quota = RUNTIME_INF THEN s
    ELSE [s EXCEPT !.cfs_b[g].runtime = s.cfs_b[g].quota,
                   !.cfs_b[g].runtime_expires = s.rq.clock + s.cfs_b[g].period]

\* No callback is ever in flight when another handler runs (one CPU), so
\* the cancel loop falls through and the timer is re-programmed.
__start_cfs_bandwidth(s, g) ==
    [s EXCEPT !.cfs_b[g].timer_active = TRUE,
              !.cfs_b[g].period_timer =
                  [active |-> TRUE,
                   expires |-> hrtimer_forward(@.expires, s.rq.clock, s.cfs_b[g].period)]]

\* a draw that is granted whatever the pool holds
assign_amount_unlimited(s, q) ==
    sched_cfs_bandwidth_slice - s.cfs_rq[q].runtime_remaining

\* a draw that takes whatever the pool holds
assign_amount_pool(s, q) ==
    IF s.cfs_b[q].quota = RUNTIME_INF
    THEN sched_cfs_bandwidth_slice - s.cfs_rq[q].runtime_remaining
    ELSE IF s.cfs_b[q].runtime > 0 THEN s.cfs_b[q].runtime
    ELSE 0

\* the amount assign_cfs_rq_runtime() takes from the pool
assign_amount(s, q) ==
    LET min_amount == sched_cfs_bandwidth_slice - s.cfs_rq[q].runtime_remaining
    IN IF s.cfs_b[q].quota = RUNTIME_INF THEN min_amount
       ELSE IF s.cfs_b[q].runtime > 0 THEN Min(s.cfs_b[q].runtime, min_amount)
       ELSE 0

\* returns the state; the C return value is runtime_remaining > 0 in it
assign_cfs_rq_runtime(s, q) ==
    With([s1 \in {IF s.cfs_b[q].quota # RUNTIME_INF /\ ~s.cfs_b[q].timer_active
         THEN __start_cfs_bandwidth(__refill_cfs_bandwidth_runtime(s, q), q)
         ELSE s} |->
    With([amount \in {assign_amount(s1, q)} |->
    With([s2 \in {IF s1.cfs_b[q].quota # RUNTIME_INF /\ s1.cfs_b[q].runtime > 0
         THEN [s1 EXCEPT !.cfs_b[q].runtime = @ - amount, !.cfs_b[q].idle = FALSE]
         ELSE s1} |->
    [s2 EXCEPT !.cfs_rq[q].runtime_remaining = @ + amount,
               !.cfs_rq[q].runtime_expires =
                   IF s2.cfs_b[q].runtime_expires - @ > 0
                   THEN s2.cfs_b[q].runtime_expires ELSE @,
               !.obs.draw = [q |-> q, before |-> s.cfs_rq[q].runtime_remaining,
                             amount |-> amount]]])])])

expire_cfs_rq_runtime(s, q) ==
    IF s.rq.clock - s.cfs_rq[q].runtime_expires < 0 THEN s
    ELSE IF s.cfs_rq[q].runtime_remaining < 0 THEN s
    ELSE IF s.cfs_rq[q].runtime_expires # s.cfs_b[q].runtime_expires
         THEN [s EXCEPT !.cfs_rq[q].runtime_expires = @ + s.rq.tick_nsec]
         ELSE [s EXCEPT !.cfs_rq[q].runtime_remaining = 0]

__account_cfs_rq_runtime(s, q, delta_exec) ==
    With([s1 \in {expire_cfs_rq_runtime(
             [s EXCEPT !.cfs_rq[q].runtime_remaining = @ - delta_exec,
                       !.obs.charged[q] = @ + delta_exec], q)} |->
    IF s1.cfs_rq[q].runtime_remaining > 0 THEN s1
    ELSE With([s2 \in {assign_cfs_rq_runtime(s1, q)} |->
         IF ~(s2.cfs_rq[q].runtime_remaining > 0) /\ s2.cfs_rq[q].curr # NULL
         THEN resched_curr(s2) ELSE s2])])

account_cfs_rq_runtime(s, q, delta_exec) ==
    IF ~s.cfs_rq[q].runtime_enabled THEN s
    ELSE __account_cfs_rq_runtime(s, q, delta_exec)

\* __return_cfs_rq_runtime() that hands the slack back whatever the quota and
\* the expiry of the local runtime
__return_cfs_rq_runtime_always(s, q) ==
    LET slack_runtime == s.cfs_rq[q].runtime_remaining - min_cfs_rq_runtime
    IN IF slack_runtime <= 0 THEN s
       ELSE [s EXCEPT !.cfs_b[q].runtime = @ + slack_runtime,
                      !.cfs_rq[q].runtime_remaining = @ - slack_runtime]

\* The slack timer is armed only when another queue of the group is
\* throttled while this one still holds runtime; slack_timer records it.
__return_cfs_rq_runtime(s, q) ==
    LET slack_runtime == s.cfs_rq[q].runtime_remaining - min_cfs_rq_runtime
        valid == s.cfs_b[q].quota # RUNTIME_INF
                 /\ s.cfs_rq[q].runtime_expires = s.cfs_b[q].runtime_expires
        s1 == IF valid
              THEN [s EXCEPT !.cfs_b[q].runtime = @ + slack_runtime,
                             !.cfs_b[q].slack_timer =
                                 @ \/ (s.cfs_b[q].runtime + slack_runtime > sched_cfs_bandwidth_slice
                                       /\ s.cfs_b[q].throttled_cfs_rq # <<>>)]
              ELSE s
    IN IF slack_runtime <= 0 THEN s
       ELSE [s1 EXCEPT !.cfs_rq[q].runtime_remaining = @ - slack_runtime]

return_cfs_rq_runtime(s, q) ==
    IF ~s.cfs_rq[q].runtime_enabled \/ s.cfs_rq[q].nr_running # 0 THEN s
    ELSE __return_cfs_rq_runtime(s, q)

\* update_curr() that stamps exec_start before it looks at the elapsed time
update_curr_stamp_first(s, q) ==
    LET curr == s.cfs_rq[q].curr
        delta_exec == s.rq.clock - s.se[curr].exec_start
    IN IF curr = NULL THEN s
       ELSE IF delta_exec <= 0 THEN [s EXCEPT !.se[curr].exec_start = s.rq.clock]
       ELSE account_cfs_rq_runtime(
                update_min_vruntime(
                    [s EXCEPT !.se[curr].exec_start = s.rq.clock,
                              !.se[curr].sum_exec_runtime = @ + delta_exec,
                              !.se[curr].vruntime =
                                  U64(@ + calc_delta_fair(delta_exec, s.se[curr].weight))],
                    q),
                q, delta_exec)

\* -------------------------------------------------------------- runtime
update_curr(s, q) ==
    LET curr == s.cfs_rq[q].curr
        delta_exec == s.rq.clock - s.se[curr].exec_start
    IN IF curr = NULL THEN s
       ELSE IF delta_exec <= 0 THEN s
       ELSE account_cfs_rq_runtime(
                update_min_vruntime(
                    [s EXCEPT !.se[curr].exec_start = s.rq.clock,
                              !.se[curr].sum_exec_runtime = @ + delta_exec,
                              !.se[curr].vruntime =
                                  U64(@ + calc_delta_fair(delta_exec, s.se[curr].weight))],
                    q),
                q, delta_exec)

account_entity_enqueue(s, q, e) ==
    [s EXCEPT !.cfs_rq[q].load_weight = @ + s.se[e].weight,
              !.rq.load_weight = IF parent_entity(e) = NULL THEN @ + s.se[e].weight ELSE @,
              !.cfs_rq[q].nr_running = @ + 1]

\* account_entity_dequeue() that leaves nr_running alone
account_entity_dequeue_weight_only(s, q, e) ==
    [s EXCEPT !.cfs_rq[q].load_weight = @ - s.se[e].weight,
              !.rq.load_weight = IF parent_entity(e) = NULL THEN @ - s.se[e].weight ELSE @]

account_entity_dequeue(s, q, e) ==
    [s EXCEPT !.cfs_rq[q].load_weight = @ - s.se[e].weight,
              !.rq.load_weight = IF parent_entity(e) = NULL THEN @ - s.se[e].weight ELSE @,
              !.cfs_rq[q].nr_running = @ - 1]

\* tg->load_avg holds this CPU's contribution only, so tg_weight is load
calc_cfs_shares(s, q) ==
    LET load == s.cfs_rq[q].load_weight
        tg_weight == load
        shares0 == IF tg_weight # 0 THEN (NICE_0_LOAD * load) \div tg_weight
                   ELSE NICE_0_LOAD * load
    IN Min(Max(shares0, MIN_SHARES), NICE_0_LOAD)

reweight_entity(s, q, e, weight) ==
    With([s1 \in {IF s.se[e].on_rq
         THEN account_entity_dequeue(
                  IF s.cfs_rq[q].curr = e THEN update_curr(s, q) ELSE s, q, e)
         ELSE s} |->
    With([s2 \in {[s1 EXCEPT !.se[e].weight = weight]} |->
    IF s2.se[e].on_rq THEN account_entity_enqueue(s2, q, e) ELSE s2])])

update_cfs_shares(s, q) ==
    LET e == tg_se(q)
    IN IF e = NULL \/ throttled_hierarchy(s, q) THEN s
       ELSE reweight_entity(s, cfs_rq_of(e), e, calc_cfs_shares(s, q))


\* -------------------------------------------------------------- buddies
RECURSIVE __clear_buddies(_, _, _)
__clear_buddies(s, e, f) ==
    IF e = NULL THEN s
    ELSE IF s.cfs_rq[cfs_rq_of(e)][f] # e THEN s
    ELSE __clear_buddies([s EXCEPT !.cfs_rq[cfs_rq_of(e)][f] = NULL], parent_entity(e), f)

clear_buddies(s, q, e) ==
    With([s1 \in {IF s.cfs_rq[q].last = e THEN __clear_buddies(s, e, "last") ELSE s} |->
    With([s2 \in {IF s1.cfs_rq[q].next = e THEN __clear_buddies(s1, e, "next") ELSE s1} |->
    IF s2.cfs_rq[q].skip = e THEN __clear_buddies(s2, e, "skip") ELSE s2])])

RECURSIVE set_buddy(_, _, _)
set_buddy(s, e, f) ==
    IF e = NULL THEN s
    ELSE set_buddy([s EXCEPT !.cfs_rq[cfs_rq_of(e)][f] = e], parent_entity(e), f)

set_next_buddy(s, e) == set_buddy(s, e, "next")

\* ------------------------------------------------------ entity dequeue
dequeue_entity(s, q, e, flags) ==
    With([s1 \in {clear_buddies(update_curr(s, q), q, e)} |->
    With([s2 \in {IF e # s1.cfs_rq[q].curr THEN __dequeue_entity(s1, q, e) ELSE s1} |->
    With([s3 \in {account_entity_dequeue([s2 EXCEPT !.se[e].on_rq = FALSE], q, e)} |->
    With([s4 \in {IF flags # DEQUEUE_SLEEP
         THEN [s3 EXCEPT !.se[e].vruntime = U64(@ - s3.cfs_rq[q].min_vruntime)]
         ELSE s3} |->
    update_cfs_shares(update_min_vruntime(return_cfs_rq_runtime(s4, q), q), q)])])])])

\* ----------------------------------------------------- CFS bandwidth (2)
tg_throttle_down(s, q) ==
    [s EXCEPT !.cfs_rq = [g \in Queues |->
        IF g \in TgSubtree(q) THEN [@[g] EXCEPT !.throttle_count = @ + 1] ELSE @[g]]]

tg_unthrottle_up(s, q) ==
    [s EXCEPT !.cfs_rq = [g \in Queues |->
        IF g \in TgSubtree(q) THEN [@[g] EXCEPT !.throttle_count = @ - 1] ELSE @[g]]]

\* the loop of throttle_cfs_rq() leaving the ancestors' h_nr_running alone
RECURSIVE throttle_walk_keep_count(_, _, _, _)
throttle_walk_keep_count(s, e, task_delta, dequeue) ==
    IF e = NULL THEN [st |-> s, end |-> NULL]
    ELSE IF ~s.se[e].on_rq THEN [st |-> s, end |-> e]
    ELSE With([s1 \in {IF dequeue THEN dequeue_entity(s, cfs_rq_of(e), e, DEQUEUE_SLEEP) ELSE s}
              |->
         throttle_walk_keep_count(s1, parent_entity(e), task_delta,
                                  dequeue /\ s1.cfs_rq[cfs_rq_of(e)].load_weight = 0)])

\* the for_each_sched_entity loop of throttle_cfs_rq(); yields the state and
\* the entity the loop stopped at (NULL: it ran off the top)
RECURSIVE throttle_walk(_, _, _, _)
throttle_walk(s, e, task_delta, dequeue) ==
    IF e = NULL THEN [st |-> s, end |-> NULL]
    ELSE IF ~s.se[e].on_rq THEN [st |-> s, end |-> e]
    ELSE With([s1 \in {IF dequeue THEN dequeue_entity(s, cfs_rq_of(e), e, DEQUEUE_SLEEP) ELSE s}
              |->
         With([s2 \in {[s1 EXCEPT !.cfs_rq[cfs_rq_of(e)].h_nr_running = @ - task_delta]}
              |->
         throttle_walk(s2, parent_entity(e), task_delta,
                       dequeue /\ s2.cfs_rq[cfs_rq_of(e)].load_weight = 0)])])

throttle_cfs_rq(s, q) ==
    With([s1 \in {tg_throttle_down(s, q)} |->
    With([task_delta \in {s1.cfs_rq[q].h_nr_running} |->
    With([w \in {throttle_walk(s1, tg_se(q), task_delta, TRUE)} |->
    With([s2 \in {IF w.end = NULL
         THEN [w.st EXCEPT !.rq.nr_running = @ - task_delta]
         ELSE w.st} |->
    With([s3 \in {[s2 EXCEPT !.cfs_rq[q].throttled = TRUE,
                    !.cfs_b[q].throttled_cfs_rq =
                        IF s2.cfs_b[q].distribute_running THEN <<q>> \o @
                        ELSE Append(@, q),
                    !.obs.nr_throttle[q] = @ + 1]} |->
    IF ~s3.cfs_b[q].timer_active THEN __start_cfs_bandwidth(s3, q) ELSE s3])])])])])

\* the closest ancestor group whose count is up to date, or NULL
RECURSIVE uptodate_ancestor(_, _)
uptodate_ancestor(s, q) ==
    IF q = "root" THEN NULL
    ELSE IF s.cfs_rq[TgParent[q]].throttle_uptodate THEN TgParent[q]
    ELSE uptodate_ancestor(s, TgParent[q])

\* check_enqueue_throttle() that does not bring throttle_count up to date
check_enqueue_throttle_no_sync(s, q) ==
    With([s1 \in {[s EXCEPT !.cfs_rq[q].throttle_uptodate = TRUE]} |->
    IF ~s1.cfs_rq[q].runtime_enabled \/ s1.cfs_rq[q].curr # NULL THEN s1
    ELSE IF cfs_rq_throttled(s1, q) THEN s1
    ELSE With([s2 \in {account_cfs_rq_runtime(s1, q, 0)} |->
         IF s2.cfs_rq[q].runtime_remaining <= 0 THEN throttle_cfs_rq(s2, q) ELSE s2])])

check_enqueue_throttle(s, q) ==
    With([tg \in {uptodate_ancestor(s, q)} |->
    With([s1 \in {IF ~s.cfs_rq[q].throttle_uptodate
         THEN [s EXCEPT !.cfs_rq[q].throttle_uptodate = TRUE,
                        !.cfs_rq[q].throttle_count =
                            IF tg # NULL THEN s.cfs_rq[tg].throttle_count ELSE @]
         ELSE s} |->
    IF ~s1.cfs_rq[q].runtime_enabled \/ s1.cfs_rq[q].curr # NULL THEN s1
    ELSE IF cfs_rq_throttled(s1, q) THEN s1
    ELSE With([s2 \in {account_cfs_rq_runtime(s1, q, 0)} |->
         IF s2.cfs_rq[q].runtime_remaining <= 0 THEN throttle_cfs_rq(s2, q) ELSE s2])])])

\* check_cfs_rq_runtime() that never throttles
check_cfs_rq_runtime_skip(s, q) == s

check_cfs_rq_runtime(s, q) ==
    IF ~s.cfs_rq[q].runtime_enabled \/ s.cfs_rq[q].runtime_remaining > 0 THEN s
    ELSE IF cfs_rq_throttled(s, q) THEN s
    ELSE throttle_cfs_rq(s, q)

\* the C return value of check_cfs_rq_runtime()
check_cfs_rq_runtime_ret(s, q) ==
    ~(~s.cfs_rq[q].runtime_enabled \/ s.cfs_rq[q].runtime_remaining > 0)

\* ------------------------------------------------------ entity enqueue
__sched_period(nr_running) ==
    IF nr_running > sched_nr_latency THEN nr_running * sysctl_sched_min_granularity
    ELSE sysctl_sched_latency

RECURSIVE slice_walk(_, _, _)
slice_walk(s, e, slice) ==
    IF e = NULL THEN slice
    ELSE LET q == cfs_rq_of(e)
             load == IF s.se[e].on_rq THEN s.cfs_rq[q].load_weight
                     ELSE s.cfs_rq[q].load_weight + s.se[e].weight
         IN slice_walk(s, parent_entity(e), calc_delta(slice, s.se[e].weight, load))

sched_slice(s, q, e) ==
    slice_walk(s, e, __sched_period(s.cfs_rq[q].nr_running + (IF s.se[e].on_rq THEN 0 ELSE 1)))

sched_vslice(s, q, e) == calc_delta_fair(sched_slice(s, q, e), s.se[e].weight)

place_entity(s, q, e, initial) ==
    LET thresh == IF GENTLE_FAIR_SLEEPERS THEN sysctl_sched_latency \div 2
                  ELSE sysctl_sched_latency
        v == IF initial
             THEN (IF START_DEBIT THEN U64(s.cfs_rq[q].min_vruntime + sched_vslice(s, q, e))
                   ELSE s.cfs_rq[q].min_vruntime)
             ELSE U64(s.cfs_rq[q].min_vruntime - thresh)
    IN [s EXCEPT !.se[e].vruntime = max_vruntime(@, v)]

enqueue_entity(s, q, e, flags) ==
    With([s1 \in {IF flags # ENQUEUE_WAKEUP
         THEN [s EXCEPT !.se[e].vruntime = U64(@ + s.cfs_rq[q].min_vruntime)]
         ELSE s} |->
    With([s2 \in {update_cfs_shares(account_entity_enqueue(update_curr(s1, q), q, e), q)}
         |->
    With([s3 \in {IF flags = ENQUEUE_WAKEUP THEN place_entity(s2, q, e, FALSE) ELSE s2} |->
    With([s4 \in {IF e # s3.cfs_rq[q].curr THEN __enqueue_entity(s3, q, e) ELSE s3} |->
    With([s5 \in {[s4 EXCEPT !.se[e].on_rq = TRUE]} |->
    IF s5.cfs_rq[q].nr_running = 1 THEN check_enqueue_throttle(s5, q) ELSE s5])])])])])


\* ----------------------------------------------------- CFS bandwidth (3)
\* the for_each_sched_entity loop of unthrottle_cfs_rq()
RECURSIVE unthrottle_walk(_, _, _, _)
unthrottle_walk(s, e, task_delta, enqueue) ==
    IF e = NULL THEN [st |-> s, end |-> NULL]
    ELSE With([enq \in {enqueue /\ ~s.se[e].on_rq} |->
         With([s1 \in {IF enq THEN enqueue_entity(s, cfs_rq_of(e), e, ENQUEUE_WAKEUP) ELSE s}
              |->
         With([s2 \in {[s1 EXCEPT !.cfs_rq[cfs_rq_of(e)].h_nr_running = @ + task_delta]}
              |->
         IF cfs_rq_throttled(s2, cfs_rq_of(e)) THEN [st |-> s2, end |-> e]
         ELSE unthrottle_walk(s2, parent_entity(e), task_delta, enq)])])])

unthrottle_cfs_rq(s, q) ==
    With([s1 \in {tg_unthrottle_up(
             [s EXCEPT !.cfs_rq[q].throttled = FALSE,
                       !.cfs_b[q].throttled_cfs_rq = Remove(@, q)], q)} |->
    IF s1.cfs_rq[q].load_weight = 0 THEN s1
    ELSE With([task_delta \in {s1.cfs_rq[q].h_nr_running} |->
         With([w \in {unthrottle_walk(s1, tg_se(q), task_delta, TRUE)} |->
         With([s2 \in {IF w.end = NULL
              THEN [w.st EXCEPT !.rq.nr_running = @ + task_delta]
              ELSE w.st} |->
         IF s2.rq.curr = NULL /\ s2.cfs_rq["root"].nr_running > 0
         THEN resched_curr(s2) ELSE s2])])])])

\* one CPU: the group's throttled list holds at most its one queue here, and
\* the run-queue lock is free whenever a timer callback runs
RECURSIVE distribute_walk(_, _, _, _)
distribute_walk(s, list, remaining, expires) ==
    IF list = <<>> THEN [st |-> s, remaining |-> remaining]
    ELSE IF ~cfs_rq_throttled(s, Head(list))
    THEN (IF remaining = 0 THEN [st |-> s, remaining |-> remaining]
          ELSE distribute_walk(s, Tail(list), remaining, expires))
    ELSE With([q \in {Head(list)} |->
         With([runtime \in {Min(1 - s.cfs_rq[q].runtime_remaining, remaining)} |->
         With([s1 \in {[s EXCEPT !.cfs_rq[q].runtime_remaining = @ + runtime,
                        !.cfs_rq[q].runtime_expires = expires]} |->
         With([s2 \in {IF s1.cfs_rq[q].runtime_remaining > 0 THEN unthrottle_cfs_rq(s1, q)
              ELSE s1} |->
         IF remaining - runtime = 0 THEN [st |-> s2, remaining |-> 0]
         ELSE distribute_walk(s2, Tail(list), remaining - runtime, expires)])])])])

\* yields the state and the runtime handed out
distribute_cfs_runtime(s, g, remaining, expires) ==
    With([w \in {distribute_walk(s, s.cfs_b[g].throttled_cfs_rq, remaining, expires)} |->
    [st |-> w.st, used |-> remaining - w.remaining]])

RECURSIVE period_distribute_loop(_, _, _)
period_distribute_loop(s, g, runtime_expires) ==
    IF s.cfs_b[g].throttled_cfs_rq # <<>> /\ s.cfs_b[g].runtime > 0
       /\ ~s.cfs_b[g].distribute_running
    THEN With([d \in {distribute_cfs_runtime(
                  [s EXCEPT !.cfs_b[g].distribute_running = TRUE], g,
                  s.cfs_b[g].runtime, runtime_expires)} |->
         period_distribute_loop(
             [d.st EXCEPT !.cfs_b[g].distribute_running = FALSE,
                          !.cfs_b[g].runtime = @ - Min(d.used, @)],
             g, runtime_expires)])
    ELSE s

\* do_sched_cfs_period_timer() that refills the pool and hands nothing out
do_sched_cfs_period_timer_refill_only(s, g, overrun) ==
    With([throttled \in {s.cfs_b[g].throttled_cfs_rq # <<>>} |->
    With([s1 \in {[s EXCEPT !.cfs_b[g].nr_periods = @ + overrun]} |->
    IF s.cfs_b[g].quota = RUNTIME_INF
    THEN [s EXCEPT !.cfs_b[g].timer_active = FALSE]
    ELSE IF s1.cfs_b[g].idle /\ ~throttled
    THEN [s1 EXCEPT !.cfs_b[g].timer_active = FALSE]
    ELSE With([s2 \in {__refill_cfs_bandwidth_runtime(
                  [s1 EXCEPT !.cfs_b[g].timer_active = TRUE], g)} |->
         IF ~throttled
         THEN [s2 EXCEPT !.cfs_b[g].idle = TRUE]
         ELSE [s2 EXCEPT !.cfs_b[g].nr_throttled = @ + overrun,
                         !.cfs_b[g].idle = FALSE]])])])

\* the C return value is ~timer_active in the result
do_sched_cfs_period_timer(s, g, overrun) ==
    With([throttled \in {s.cfs_b[g].throttled_cfs_rq # <<>>} |->
    With([s1 \in {[s EXCEPT !.cfs_b[g].nr_periods = @ + overrun]} |->
    IF s.cfs_b[g].quota = RUNTIME_INF
    THEN [s EXCEPT !.cfs_b[g].timer_active = FALSE]
    ELSE IF s1.cfs_b[g].idle /\ ~throttled
    THEN [s1 EXCEPT !.cfs_b[g].timer_active = FALSE]
    ELSE With([s2 \in {__refill_cfs_bandwidth_runtime(
                  [s1 EXCEPT !.cfs_b[g].timer_active = TRUE], g)} |->
         IF ~throttled
         THEN [s2 EXCEPT !.cfs_b[g].idle = TRUE]
         ELSE [period_distribute_loop(
                   [s2 EXCEPT !.cfs_b[g].nr_throttled = @ + overrun], g,
                   s2.cfs_b[g].runtime_expires)
               EXCEPT !.cfs_b[g].idle = FALSE]])])])

\* An expiry is served on time: hrtimer_forward() reports one overrun, the
\* second pass of the loop reports none.
sched_cfs_period_timer(s, g) ==
    With([s1 \in {do_sched_cfs_period_timer(
             [s EXCEPT !.cfs_b[g].period_timer.expires =
                  hrtimer_forward(@, s.rq.clock, s.cfs_b[g].period)], g, 1)} |->
    [s1 EXCEPT !.cfs_b[g].period_timer.active = s1.cfs_b[g].timer_active]])


\* ------------------------------------------------------- pick / put / tick
wakeup_gran(s, e) == calc_delta_fair(sysctl_sched_wakeup_granularity, s.se[e].weight)

\* wakeup_preempt_entity() that finds every entity close enough
wakeup_preempt_entity_close(s, curr, e) == 0

wakeup_preempt_entity(s, curr, e) ==
    LET vdiff == S64(s.se[curr].vruntime - s.se[e].vruntime)
    IN IF vdiff <= 0 THEN -1
       ELSE IF vdiff > wakeup_gran(s, e) THEN 1
       ELSE 0

\* check_preempt_tick() that never asks for a reschedule
check_preempt_tick_never(s, q, curr) == s

\* check_preempt_tick() without its comparison of delta_exec and the slice
check_preempt_tick_no_slice(s, q, curr) ==
    With([ideal_runtime \in {sched_slice(s, q, curr)} |->
    With([delta_exec \in {s.se[curr].sum_exec_runtime - s.se[curr].prev_sum_exec_runtime}
         |->
    IF delta_exec < sysctl_sched_min_granularity THEN s
    ELSE With([delta \in {S64(s.se[curr].vruntime - s.se[__pick_first_entity(s, q)].vruntime)}
              |->
         IF delta < 0 THEN s
         ELSE IF delta > ideal_runtime THEN resched_curr(s)
         ELSE s])])])

check_preempt_tick(s, q, curr) ==
    With([ideal_runtime \in {sched_slice(s, q, curr)} |->
    With([delta_exec \in {s.se[curr].sum_exec_runtime - s.se[curr].prev_sum_exec_runtime}
         |->
    IF delta_exec > ideal_runtime THEN clear_buddies(resched_curr(s), q, curr)
    ELSE IF delta_exec < sysctl_sched_min_granularity THEN s
    ELSE With([delta \in {S64(s.se[curr].vruntime - s.se[__pick_first_entity(s, q)].vruntime)}
              |->
         IF delta < 0 THEN s
         ELSE IF delta > ideal_runtime THEN resched_curr(s)
         ELSE s])])])

\* set_next_entity() that leaves the entity in the tree
set_next_entity_in_tree(s, q, e) ==
    [s EXCEPT !.se[e].exec_start = s.rq.clock,
              !.cfs_rq[q].curr = e,
              !.se[e].prev_sum_exec_runtime = s.se[e].sum_exec_runtime]

set_next_entity(s, q, e) ==
    LET s1 == IF s.se[e].on_rq THEN __dequeue_entity(s, q, e) ELSE s
    IN [s1 EXCEPT !.se[e].exec_start = s.rq.clock,
                  !.cfs_rq[q].curr = e,
                  !.se[e].prev_sum_exec_runtime = s.se[e].sum_exec_runtime]

\* the entity pick_next_entity() returns
pick_next_entity_se(s, q, curr) ==
    With([first \in {__pick_first_entity(s, q)} |->
    With([left \in {IF first = NULL \/ (curr # NULL /\ entity_before(s, curr, first))
         THEN curr ELSE first} |->
    With([second \in {IF left = curr THEN first
         ELSE With([nxt \in {__pick_next_entity(s, q, left)} |->
              IF nxt = NULL \/ (curr # NULL /\ entity_before(s, curr, nxt))
              THEN curr ELSE nxt])} |->
    With([se1 \in {IF s.cfs_rq[q].skip = left
            /\ second # NULL
            /\ (s.rq.strict_skip_buddy \/ wakeup_preempt_entity(s, second, left) < 1)
         THEN second ELSE left} |->
    With([se2 \in {IF s.cfs_rq[q].last # NULL
            /\ wakeup_preempt_entity(s, s.cfs_rq[q].last, left) < 1
         THEN s.cfs_rq[q].last ELSE se1} |->
    IF s.cfs_rq[q].next # NULL /\ wakeup_preempt_entity(s, s.cfs_rq[q].next, left) < 1
    THEN s.cfs_rq[q].next ELSE se2])])])])])

\* the state pick_next_entity() leaves
pick_next_entity(s, q, curr) ==
    With([e \in {pick_next_entity_se(s, q, curr)} |->
    [st |-> clear_buddies(s, q, e), se |-> e]])

put_prev_entity(s, q, prev) ==
    With([s1 \in {check_cfs_rq_runtime(IF s.se[prev].on_rq THEN update_curr(s, q) ELSE s, q)}
         |->
    With([s2 \in {IF s1.se[prev].on_rq THEN __enqueue_entity(s1, q, prev) ELSE s1} |->
    [s2 EXCEPT !.cfs_rq[q].curr = NULL]])])

entity_tick(s, q, curr) ==
    With([s1 \in {update_cfs_shares(update_curr(s, q), q)} |->
    IF s1.cfs_rq[q].nr_running > 1 THEN check_preempt_tick(s1, q, curr) ELSE s1])

RECURSIVE put_prev_task_fair(_, _)
put_prev_task_fair(s, e) ==
    IF e = NULL THEN s
    ELSE put_prev_task_fair(put_prev_entity(s, cfs_rq_of(e), e), parent_entity(e))

RECURSIVE task_tick_fair(_, _)
task_tick_fair(s, e) ==
    IF e = NULL THEN s
    ELSE task_tick_fair(entity_tick(s, cfs_rq_of(e), e), parent_entity(e))


\* ------------------------------------------------------------ task level
\* the first loop of enqueue_task_fair() walking on past a throttled queue
RECURSIVE enqueue_walk_through(_, _, _)
enqueue_walk_through(s, e, flags) ==
    IF e = NULL THEN [st |-> s, end |-> NULL]
    ELSE IF s.se[e].on_rq THEN [st |-> s, end |-> e]
    ELSE With([s1 \in {enqueue_entity(s, cfs_rq_of(e), e, flags)} |->
         enqueue_walk_through([s1 EXCEPT !.cfs_rq[cfs_rq_of(e)].h_nr_running = @ + 1],
                              parent_entity(e), ENQUEUE_WAKEUP)])

\* first loop of enqueue_task_fair(); yields the state and where it stopped
RECURSIVE enqueue_walk(_, _, _)
enqueue_walk(s, e, flags) ==
    IF e = NULL THEN [st |-> s, end |-> NULL]
    ELSE IF s.se[e].on_rq THEN [st |-> s, end |-> e]
    ELSE With([s1 \in {enqueue_entity(s, cfs_rq_of(e), e, flags)} |->
         IF cfs_rq_throttled(s1, cfs_rq_of(e)) THEN [st |-> s1, end |-> e]
         ELSE enqueue_walk([s1 EXCEPT !.cfs_rq[cfs_rq_of(e)].h_nr_running = @ + 1],
                           parent_entity(e), ENQUEUE_WAKEUP)])

\* second loop of enqueue_task_fair() (d = 1) and of dequeue_task_fair() (d = -1)
RECURSIVE h_nr_walk(_, _, _)
h_nr_walk(s, e, d) ==
    IF e = NULL THEN [st |-> s, end |-> NULL]
    ELSE With([s1 \in {[s EXCEPT !.cfs_rq[cfs_rq_of(e)].h_nr_running = @ + d]} |->
         IF cfs_rq_throttled(s1, cfs_rq_of(e)) THEN [st |-> s1, end |-> e]
         ELSE h_nr_walk(update_cfs_shares(s1, cfs_rq_of(e)), parent_entity(e), d)])

enqueue_task_fair(s, p, flags) ==
    With([w1 \in {enqueue_walk(s, p, flags)} |->
    With([w2 \in {h_nr_walk(w1.st, w1.end, 1)} |->
    IF w2.end = NULL THEN [w2.st EXCEPT !.rq.nr_running = @ + 1] ELSE w2.st])])

\* first loop of dequeue_task_fair()
RECURSIVE dequeue_walk(_, _, _, _)
dequeue_walk(s, e, flags, task_sleep) ==
    IF e = NULL THEN [st |-> s, end |-> NULL]
    ELSE With([q \in {cfs_rq_of(e)} |->
         With([pe \in {parent_entity(e)} |->
         With([s1 \in {dequeue_entity(s, q, e, flags)} |->
         IF cfs_rq_throttled(s1, q) THEN [st |-> s1, end |-> e]
         ELSE With([s2 \in {[s1 EXCEPT !.cfs_rq[q].h_nr_running = @ - 1]} |->
              IF s2.cfs_rq[q].load_weight # 0
              THEN [st |-> IF task_sleep /\ pe # NULL /\ ~throttled_hierarchy(s2, q)
                           THEN set_next_buddy(s2, pe) ELSE s2,
                    end |-> pe]
              ELSE dequeue_walk(s2, pe, DEQUEUE_SLEEP, task_sleep)])])])])

dequeue_task_fair(s, p, flags) ==
    With([w1 \in {dequeue_walk(s, p, flags, flags = DEQUEUE_SLEEP)} |->
    With([w2 \in {h_nr_walk(w1.st, w1.end, -1)} |->
    IF w2.end = NULL THEN [w2.st EXCEPT !.rq.nr_running = @ - 1] ELSE w2.st])])

\* se->depth: the number of entities above it
Depth(e) == Cardinality(TgAncestors(cfs_rq_of(e)))

\* The descent of the first loop of pick_next_task_fair(): the state, the
\* entity reached, and whether a queue on the way had to be throttled.
RECURSIVE pick_descend(_, _)
pick_descend(s, q) ==
    With([c \in {s.cfs_rq[q].curr} |->
    With([running \in {c # NULL /\ s.se[c].on_rq} |->
    With([s1 \in {IF running THEN update_curr(s, q) ELSE s} |->
    IF c # NULL /\ check_cfs_rq_runtime_ret(s1, q)
    THEN [st |-> check_cfs_rq_runtime(s1, q), se |-> NULL, simple |-> TRUE]
    ELSE With([r \in {pick_next_entity(s1, q, IF running THEN c ELSE NULL)} |->
         IF group_cfs_rq(r.se) = NULL THEN [st |-> r.st, se |-> r.se, simple |-> FALSE]
         ELSE pick_descend(r.st, group_cfs_rq(r.se))])])])])

\* the put/set loop of pick_next_task_fair() that touches only the queues
\* on which prev and the picked task differ
RECURSIVE pick_switch(_, _, _)
pick_switch(s, e, pse) ==
    With([s1 \in {IF Depth(e) <= Depth(pse) THEN put_prev_entity(s, cfs_rq_of(pse), pse) ELSE s}
         |->
    With([s2 \in {IF Depth(e) >= Depth(pse) THEN set_next_entity(s1, cfs_rq_of(e), e) ELSE s1}
         |->
    IF cfs_rq_of(e) = cfs_rq_of(pse) THEN s2
    ELSE pick_switch(s2,
                     IF Depth(e) >= Depth(pse) THEN parent_entity(e) ELSE e,
                     IF Depth(e) <= Depth(pse) THEN parent_entity(pse) ELSE pse)])])

\* the simple path: set the picked entity at every level
RECURSIVE pick_simple(_, _)
pick_simple(s, q) ==
    With([r \in {pick_next_entity(s, q, NULL)} |->
    With([s1 \in {set_next_entity(r.st, q, r.se)} |->
    IF group_cfs_rq(r.se) = NULL THEN [st |-> s1, p |-> r.se]
    ELSE pick_simple(s1, group_cfs_rq(r.se))])])

\* prev is the task that was running, NULL for the idle task.  Yields the
\* state and the task picked (NULL: nothing to run; prev is then put by the
\* idle class).  idle_balance() finds nothing: there is no other CPU.
pick_next_task_fair(s, prev) ==
    With([r \in {IF s.cfs_rq["root"].nr_running = 0 THEN [st |-> s, se |-> NULL, path |-> "idle"]
         ELSE IF prev = NULL THEN [st |-> s, se |-> NULL, path |-> "simple"]
         ELSE With([d \in {pick_descend(s, "root")} |->
              [st |-> d.st, se |-> d.se,
               path |-> IF d.simple THEN "simple" ELSE "switch"]])} |->
    IF r.path = "switch"
    THEN [st |-> IF r.se # prev THEN pick_switch(r.st, r.se, prev) ELSE r.st, p |-> r.se]
    ELSE With([s1 \in {IF prev = NULL THEN r.st ELSE put_prev_task_fair(r.st, prev)} |->
         IF r.path = "idle" \/ r.st.cfs_rq["root"].nr_running = 0
         THEN [st |-> s1, p |-> NULL]
         ELSE pick_simple(s1, "root")])])


\* --------------------------------------------------------- wakeup preemption
set_last_buddy(s, e) == set_buddy(s, e, "last")

\* find_matching_se(): the ancestors of a and b that share a queue
RECURSIVE find_matching_se(_, _)
find_matching_se(a, b) ==
    IF Depth(a) > Depth(b) THEN find_matching_se(parent_entity(a), b)
    ELSE IF Depth(b) > Depth(a) THEN find_matching_se(a, parent_entity(b))
    ELSE IF cfs_rq_of(a) = cfs_rq_of(b) THEN <<a, b>>
    ELSE find_matching_se(parent_entity(a), parent_entity(b))

\* every task is SCHED_NORMAL and no wakeup is a fork
check_preempt_wakeup(s, p) ==
    With([curr \in {s.rq.curr} |->
    With([scale \in {s.cfs_rq[cfs_rq_of(curr)].nr_running >= sched_nr_latency} |->
    With([next_buddy_marked \in {NEXT_BUDDY /\ scale} |->
    IF curr = p THEN s
    ELSE IF throttled_hierarchy(s, cfs_rq_of(p)) THEN s
    ELSE With([s1 \in {IF next_buddy_marked THEN set_next_buddy(s, p) ELSE s} |->
         IF s1.rq.need_resched THEN s1
         ELSE IF ~WAKEUP_PREEMPTION THEN s1
         ELSE With([m \in {find_matching_se(curr, p)} |->
              With([s2 \in {update_curr(s1, cfs_rq_of(m[1]))} |->
              IF wakeup_preempt_entity(s2, m[1], m[2]) # 1 THEN s2
              ELSE With([s3 \in {resched_curr(IF next_buddy_marked THEN s2
                                     ELSE set_next_buddy(s2, m[2]))} |->
                   IF ~s3.se[m[1]].on_rq THEN s3
                   ELSE IF LAST_BUDDY /\ scale /\ entity_is_task(m[1])
                   THEN set_last_buddy(s3, m[1])
                   ELSE s3])])])])])])])


\* ===================================================== the one-CPU machine
MSEC == 1000 * NSEC_PER_USEC

\* bounds of the runs
MaxTicks == 4
MaxOps == 3

InitSe ==
    [e \in Entities |->
        [vruntime |-> 0, on_rq |-> FALSE, exec_start |-> 0, sum_exec_runtime |-> 0,
         prev_sum_exec_runtime |-> 0, weight |-> NICE_0_LOAD]]

\* init_cfs_rq() and init_cfs_rq_runtime(); enabled: the queues of groups
\* that were given a quota
InitCfsRq(enabled) ==
    [q \in Queues |->
        [tasks_timeline |-> <<>>, curr |-> NULL, next |-> NULL, last |-> NULL,
         skip |-> NULL, nr_running |-> 0, h_nr_running |-> 0, load_weight |-> 0,
         min_vruntime |-> U64(0 - 2 ^ 20),
         throttled |-> FALSE, throttle_count |-> 0, throttle_uptodate |-> FALSE,
         runtime_enabled |-> q \in enabled, runtime_remaining |-> 0,
         runtime_expires |-> 0]]

\* init_cfs_bandwidth(), then a quota and period written at time 0: the pool
\* is refilled and the period timer is left for the first draw to start
InitCfsB(quota, period) ==
    [q \in Queues |->
        [quota |-> quota[q], period |-> period[q],
         runtime |-> IF quota[q] = RUNTIME_INF THEN 0 ELSE quota[q],
         runtime_expires |-> IF quota[q] = RUNTIME_INF THEN 0 ELSE period[q],
         timer_active |-> FALSE, idle |-> FALSE, throttled_cfs_rq |-> <<>>,
         distribute_running |-> FALSE, nr_periods |-> 0, nr_throttled |-> 0,
         period_timer |-> [active |-> FALSE, expires |-> 0],
         slack_timer |-> FALSE]]

InitRq(tick, first_tick) ==
    [clock |-> 0, tick_nsec |-> tick, next_tick |-> first_tick, curr |-> NULL,
     need_resched |-> FALSE, nr_running |-> 0, load_weight |-> 0,
     strict_skip_buddy |-> STRICT_SKIP_BUDDY]

InitObs ==
    [draw |-> [q |-> NULL, before |-> 0, amount |-> 0],
     charged |-> [q \in Queues |-> 0],
     nr_throttle |-> [q \in Queues |-> 0],
     closed |-> [q \in Queues |-> [full |-> FALSE, charged |-> 0, nr_throttle |-> 0,
                                    entered_throttled |-> FALSE]],
     at_expiry |-> [q \in Queues |-> "none"],
     began |-> [q \in Queues |-> FALSE],
     deficit |-> [q \in Queues |-> 0],
     enq_throttled |-> FALSE,
     pick |-> NULL,
     delta_exec |-> <<>>]

default_cfs_period == 100 * MSEC

SpecQuota == [q \in Queues |-> CASE q = "g1" -> 12 * MSEC [] q = "g2" -> 3 * MSEC
                                 [] OTHER -> RUNTIME_INF]
SpecPeriod == [q \in Queues |-> CASE q = "g1" -> 12 * MSEC [] q = "g2" -> 12 * MSEC
                                  [] OTHER -> default_cfs_period]

\* Every task starts off this CPU with a vruntime relative to the queue it
\* left (it was the leftmost there).
Init ==
    /\ se = InitSe
    /\ cfs_rq = InitCfsRq(Groups)
    /\ cfs_b = InitCfsB(SpecQuota, SpecPeriod)
    /\ rq = InitRq(4 * MSEC, 4 * MSEC)
    /\ task = [p \in Tasks |-> "away"]
    /\ now = 0
    /\ ops = 0
    /\ obs = InitObs
    /\ mig = NULL
    /\ dist = NULL
    /\ avg = NULL
    /\ tune = NULL
    /\ hmp = NULL
    /\ imb = NULL
    /\ offline = NULL
    /\ det = NULL
    /\ lb = NULL
    /\ ab = NULL
    /\ dl = NULL
    /\ lk = NULL
    /\ ret = NULL
    /\ pt = NULL
    /\ tc = NULL
    /\ hy = NULL
    /\ tm = NULL
    /\ af = NULL
    /\ cn = NULL

Commit(s) ==
    /\ se' = s.se
    /\ cfs_rq' = s.cfs_rq
    /\ cfs_b' = s.cfs_b
    /\ rq' = s.rq
    /\ obs' = s.obs

\* update_rq_clock(), which every entry into the scheduler performs
update_rq_clock(s) == [s EXCEPT !.rq.clock = now]

\* check_preempt_curr(): the idle task yields to any fair task
check_preempt_curr(s, p) ==
    IF s.rq.curr = NULL THEN resched_curr(s) ELSE check_preempt_wakeup(s, p)

\* records that a task was enqueued on a queue that was throttled
ObserveEnqueue(s, p) ==
    [s EXCEPT !.obs.enq_throttled = @ \/ cfs_rq[TaskTg[p]].throttled]

\* try_to_wake_up() of a sleeping task
Wakeup(p) ==
    /\ task[p] = "sleeping"
    /\ ops < MaxOps
    /\ ops' = ops + 1
    /\ Commit(ObserveEnqueue(
           check_preempt_curr(enqueue_task_fair(update_rq_clock(St), p, ENQUEUE_WAKEUP), p), p))
    /\ task' = [task EXCEPT ![p] = "queued"]
    /\ UNCHANGED <<now, mig, dist, avg, tune, hmp, imb, offline, det, lb, ab, dl, lk, ret, pt, tc, hy, tm, af, cn>>

\* attach_task() of a task that left another CPU
Arrive(p) ==
    /\ task[p] = "away"
    /\ ops < MaxOps
    /\ ops' = ops + 1
    /\ Commit(ObserveEnqueue(
           check_preempt_curr(enqueue_task_fair(update_rq_clock(St), p, NOFLAG), p), p))
    /\ task' = [task EXCEPT ![p] = "queued"]
    /\ UNCHANGED <<now, mig, dist, avg, tune, hmp, imb, offline, det, lb, ab, dl, lk, ret, pt, tc, hy, tm, af, cn>>

\* detach_task() of a queued task that is not running
Leave(p) ==
    /\ task[p] = "queued"
    /\ rq.curr # p
    /\ ops < MaxOps
    /\ ops' = ops + 1
    /\ Commit(dequeue_task_fair(update_rq_clock(St), p, NOFLAG))
    /\ task' = [task EXCEPT ![p] = "away"]
    /\ UNCHANGED <<now, mig, dist, avg, tune, hmp, imb, offline, det, lb, ab, dl, lk, ret, pt, tc, hy, tm, af, cn>>

\* __schedule(): the state and the task that runs next
schedule_pick(s, prev) ==
    LET r == pick_next_task_fair([s EXCEPT !.rq.need_resched = FALSE], prev)
    IN [r.st EXCEPT !.rq.curr = r.p]

\* the running task blocks: __schedule() deactivates it and picks another
Sleep ==
    /\ rq.curr # NULL
    /\ ops < MaxOps
    /\ ops' = ops + 1
    /\ Commit(schedule_pick(dequeue_task_fair(update_rq_clock(St), rq.curr, DEQUEUE_SLEEP),
                            rq.curr))
    /\ task' = [task EXCEPT ![rq.curr] = "sleeping"]
    /\ UNCHANGED <<now, mig, dist, avg, tune, hmp, imb, offline, det, lb, ab, dl, lk, ret, pt, tc, hy, tm, af, cn>>

\* __schedule() on a pending need_resched
Schedule ==
    /\ rq.need_resched
    /\ Commit(schedule_pick(update_rq_clock(St), rq.curr))
    /\ UNCHANGED <<task, now, ops, mig, dist, avg, tune, hmp, imb, offline, det, lb, ab, dl, lk, ret, pt, tc, hy, tm, af, cn>>

\* scheduler_tick()
Tick ==
    /\ now = rq.next_tick
    /\ LET s == update_rq_clock(St)
           s1 == IF rq.curr = NULL THEN s ELSE task_tick_fair(s, rq.curr)
       IN Commit([s1 EXCEPT !.rq.next_tick = @ + rq.tick_nsec])
    /\ UNCHANGED <<task, now, ops, mig, dist, avg, tune, hmp, imb, offline, det, lb, ab, dl, lk, ret, pt, tc, hy, tm, af, cn>>

\* what a period-timer expiry of group g is recorded to have done
ObservePeriod(s0, s1, g) ==
    [s1 EXCEPT
        !.obs.closed[g] = [full |-> s0.obs.began[g],
                           charged |-> s0.obs.charged[g],
                           nr_throttle |-> s0.obs.nr_throttle[g],
                           entered_throttled |-> s0.obs.at_expiry[g] = "kept"],
        !.obs.charged[g] = 0,
        !.obs.nr_throttle[g] = 0,
        !.obs.began[g] = TRUE,
        !.obs.deficit[g] = 0 - s0.cfs_rq[g].runtime_remaining,
        !.obs.at_expiry[g] = IF ~s0.cfs_rq[g].throttled THEN "none"
                             ELSE IF s1.cfs_rq[g].throttled THEN "kept"
                             ELSE "released"]

\* the period timer of group g expires
PeriodTimer(g) ==
    /\ cfs_b[g].period_timer.active
    /\ now = cfs_b[g].period_timer.expires
    /\ LET s == update_rq_clock(St)
       IN Commit(ObservePeriod(s, sched_cfs_period_timer(s, g), g))
    /\ UNCHANGED <<task, now, ops, mig, dist, avg, tune, hmp, imb, offline, det, lb, ab, dl, lk, ret, pt, tc, hy, tm, af, cn>>

\* the next instant something is armed for
NextEvent ==
    LET ts == {rq.next_tick} \cup
              {cfs_b[g].period_timer.expires : g \in {h \in Groups : cfs_b[h].period_timer.active}}
    IN CHOOSE x \in ts : \A y \in ts : x <= y

\* time passes, never beyond a tick or an expiry that is due, and not while
\* a reschedule is pending
Advance ==
    /\ ~rq.need_resched
    /\ now < NextEvent
    /\ now' = NextEvent
    /\ now' <= MaxTicks * rq.tick_nsec
    /\ UNCHANGED <<se, cfs_rq, cfs_b, rq, task, ops, obs, mig, dist, avg, tune, hmp, imb, offline, det, lb, ab, dl, lk, ret, pt, tc, hy, tm, af, cn>>

Next ==
    \/ \E p \in Tasks : Wakeup(p)
    \/ \E p \in Tasks : Arrive(p)
    \/ \E p \in Tasks : Leave(p)
    \/ Sleep
    \/ Schedule
    \/ Tick
    \/ \E g \in Groups : PeriodTimer(g)
    \/ Advance

Spec == Init /\ [][Next]_vars


\* ============================================ the bandwidth scenario, SpecBw
\* One task in group g1, quota 5 ms, period 100 ms, that never sleeps.  The
\* tick length is the build's TICK_NSEC (HZ = 250 or HZ = 100) and the first
\* tick falls anywhere within one tick of the task's arrival at time 0.
MaxPeriods == 3

BwQuota == [q \in Queues |-> IF q = "g1" THEN 5 * MSEC ELSE RUNTIME_INF]
BwPeriod == [q \in Queues |-> default_cfs_period]

InitBw ==
    /\ se = InitSe
    /\ cfs_rq = InitCfsRq({"g1"})
    /\ cfs_b = InitCfsB(BwQuota, BwPeriod)
    /\ \E tick \in {4, 10} : \E first \in 1..tick : rq = InitRq(tick * MSEC, first * MSEC)
    /\ task = [p \in Tasks |-> "away"]
    /\ now = 0
    /\ ops = 0
    /\ obs = InitObs
    /\ mig = NULL
    /\ dist = NULL
    /\ avg = NULL
    /\ tune = NULL
    /\ hmp = NULL
    /\ imb = NULL
    /\ offline = NULL
    /\ det = NULL
    /\ lb = NULL
    /\ ab = NULL
    /\ dl = NULL
    /\ lk = NULL
    /\ ret = NULL
    /\ pt = NULL
    /\ tc = NULL
    /\ hy = NULL
    /\ tm = NULL
    /\ af = NULL
    /\ cn = NULL

AdvanceBw ==
    /\ task["t2"] = "queued"
    /\ ~rq.need_resched
    /\ now < NextEvent
    /\ now' = NextEvent
    /\ now' <= MaxPeriods * default_cfs_period
    /\ UNCHANGED <<se, cfs_rq, cfs_b, rq, task, ops, obs, mig, dist, avg, tune, hmp, imb, offline, det, lb, ab, dl, lk, ret, pt, tc, hy, tm, af, cn>>

NextBw ==
    \/ Arrive("t2")
    \/ Schedule
    \/ Tick
    \/ PeriodTimer("g1")
    \/ AdvanceBw

SpecBw == InitBw /\ [][NextBw]_vars

\* ================================================= migration, SpecMig
\* Two run-queues, their locks and their cfs_tasks lists; the passive
\* balancer ("lb", load_balance) and the active one ("stop",
\* active_load_balance_cpu_stop) run as sequences of steps, and any other
\* lock holder ("other") may take a run-queue lock and reschedule under it.
\* Every task here is runnable: p->on_rq is QUEUED or MIGRATING.
MaxMig == 2

Cpus == {0, 1}
Balancers == {"lb", "stop"}

Step(op, p, r) == [op |-> op, p |-> p, r |-> r]

\* detach_task() that marks the task only once both locks are held
detach_task_mark_late(p) ==
    << Step("deactivate_task", p, NULL), Step("double_lock_balance", NULL, NULL),
       Step("set_on_rq", p, "MIGRATING"), Step("set_task_cpu", p, NULL),
       Step("double_unlock_balance", NULL, NULL) >>

\* detach_task() that leaves the task on the source queue
detach_task_no_deactivate(p) ==
    << Step("set_on_rq", p, "MIGRATING"), Step("double_lock_balance", NULL, NULL),
       Step("set_task_cpu", p, NULL), Step("double_unlock_balance", NULL, NULL) >>

detach_task(p) ==
    << Step("deactivate_task", p, NULL), Step("set_on_rq", p, "MIGRATING"),
       Step("double_lock_balance", NULL, NULL), Step("set_task_cpu", p, NULL),
       Step("double_unlock_balance", NULL, NULL) >>

\* check_preempt_curr() moves no task and is left out
attach_task(p) ==
    << Step("set_on_rq", p, "QUEUED"), Step("activate_task", p, NULL) >>

attach_one_task(p) ==
    << Step("lock", NULL, "dst") >> \o attach_task(p) \o << Step("unlock_done", NULL, "dst") >>

RECURSIVE attach_all(_)
attach_all(tasks) ==
    IF tasks = <<>> THEN <<>> ELSE attach_task(Head(tasks)) \o attach_all(Tail(tasks))

attach_tasks(tasks) ==
    << Step("lock", NULL, "dst") >> \o attach_all(tasks) \o << Step("unlock_done", NULL, "dst") >>

\* the part of load_balance() from more_balance to the attach
load_balance ==
    << Step("lock", NULL, "src"), Step("validate", NULL, NULL), Step("detach_tasks", NULL, NULL),
       Step("unlock", NULL, "src"), Step("attach_tasks", NULL, NULL) >>

active_load_balance_cpu_stop ==
    << Step("lock", NULL, "src"), Step("stop_select", NULL, NULL),
       Step("unlock", NULL, "src"), Step("attach_tasks", NULL, NULL) >>

\* can_migrate_task(): not the task running on the source CPU
can_migrate_task(m, p, src) == m.curr[src] # p

\* what one step of balancer a does to the machine m (its todo list already
\* popped): the set of outcomes, empty while the step has to wait
Exec(m, a, o) ==
    LET src == m.env[a].src
        dst == m.env[a].dst
        r == IF o.r = "src" THEN src ELSE dst
        low == IF src < dst THEN "src" ELSE "dst"
        high == IF src < dst THEN "dst" ELSE "src"
        push == m.env[a].push
        todo(more) == [m EXCEPT !.todo[a] = more \o @]
        detach_and_list(p) == detach_task(p) \o << Step("list_add", p, NULL) >>
    IN CASE o.op = "lock" ->
                IF m.lock[r] = NULL THEN {[m EXCEPT !.lock[r] = a]} ELSE {}
         [] o.op = "unlock" -> {[m EXCEPT !.lock[r] = NULL]}
         [] o.op = "unlock_done" ->
                {[m EXCEPT !.lock[r] = NULL,
                           !.completed = {m.env[a].tasks[i] : i \in 1..Len(m.env[a].tasks)}]}
         [] o.op = "validate" ->
                IF Cardinality(m.cfs_tasks[src]) <= 1
                THEN {[m EXCEPT !.todo[a] = << Step("unlock", NULL, "src") >>]}
                ELSE {m}
         [] o.op = "detach_tasks" ->
                {m} \cup
                (IF Cardinality(m.cfs_tasks[src]) <= 1 THEN {}
                 ELSE {todo(detach_and_list(p) \o << Step("detach_tasks", NULL, NULL) >>) :
                          p \in {x \in m.cfs_tasks[src] : can_migrate_task(m, x, src)}})
         [] o.op = "stop_select" ->
                IF Cardinality(m.cfs_tasks[src]) <= 1 THEN {m}
                ELSE IF push # NULL
                THEN (IF m.on_rq[push] = "QUEUED" /\ m.cpu[push] = src
                      THEN {todo(detach_and_list(push))} ELSE {m})
                ELSE {m} \cup {todo(detach_and_list(p)) : p \in m.cfs_tasks[src]}
         [] o.op = "deactivate_task" -> {[m EXCEPT !.cfs_tasks[src] = @ \ {o.p}]}
         [] o.op = "activate_task" -> {[m EXCEPT !.cfs_tasks[dst] = @ \cup {o.p}]}
         [] o.op = "set_on_rq" -> {[m EXCEPT !.on_rq[o.p] = o.r]}
         [] o.op = "set_task_cpu" -> {[m EXCEPT !.cpu[o.p] = dst]}
         [] o.op = "list_add" -> {[m EXCEPT !.env[a].tasks = Append(@, o.p)]}
         [] o.op = "double_lock_balance" ->
                (IF m.lock[dst] = NULL THEN {[m EXCEPT !.lock[dst] = a]} ELSE {})
                \cup {[todo(<< Step("lock", NULL, low), Step("lock", NULL, high) >>)
                          EXCEPT !.lock[src] = NULL]}
         [] o.op = "double_unlock_balance" -> {[m EXCEPT !.lock[dst] = NULL]}
         [] o.op = "attach_tasks" ->
                IF m.env[a].tasks = <<>> THEN {m}
                ELSE IF a = "lb" THEN {todo(attach_tasks(m.env[a].tasks))}
                ELSE {todo(attach_one_task(Head(m.env[a].tasks)))}

InitMigState ==
    [lock |-> [c \in Cpus |-> NULL],
     cfs_tasks |-> [c \in Cpus |-> IF c = 0 THEN Tasks ELSE {}],
     curr |-> [c \in Cpus |-> IF c = 0 THEN "t1" ELSE NULL],
     on_rq |-> [p \in Tasks |-> "QUEUED"],
     cpu |-> [p \in Tasks |-> 0],
     todo |-> [a \in Balancers |-> <<>>],
     env |-> [a \in Balancers |-> [src |-> 0, dst |-> 1, tasks |-> <<>>, push |-> NULL]],
     started |-> 0,
     completed |-> {}]

InitMig ==
    /\ se = InitSe
    /\ cfs_rq = InitCfsRq({})
    /\ cfs_b = InitCfsB([q \in Queues |-> RUNTIME_INF], [q \in Queues |-> default_cfs_period])
    /\ rq = InitRq(4 * MSEC, 4 * MSEC)
    /\ task = [p \in Tasks |-> "queued"]
    /\ now = 0
    /\ ops = 0
    /\ obs = InitObs
    /\ mig = InitMigState
    /\ dist = NULL
    /\ avg = NULL
    /\ tune = NULL
    /\ hmp = NULL
    /\ imb = NULL
    /\ offline = NULL
    /\ det = NULL
    /\ lb = NULL
    /\ ab = NULL
    /\ dl = NULL
    /\ lk = NULL
    /\ ret = NULL
    /\ pt = NULL
    /\ tc = NULL
    /\ hy = NULL
    /\ tm = NULL
    /\ af = NULL
    /\ cn = NULL

MigUnchanged == UNCHANGED <<se, cfs_rq, cfs_b, rq, task, now, ops, obs, dist, avg, tune, hmp, imb, offline, det, lb, ab, dl, lk, ret, pt, tc, hy, tm, af, cn>>

\* load_balance() on CPU dst finds CPU src the busiest
StartLb(src, dst) ==
    /\ mig.todo["lb"] = <<>>
    /\ mig.started < MaxMig
    /\ src # dst
    /\ mig' = [mig EXCEPT !.todo["lb"] = load_balance,
                          !.env["lb"] = [src |-> src, dst |-> dst, tasks |-> <<>>, push |-> NULL],
                          !.started = @ + 1,
                          !.completed = {}]
    /\ MigUnchanged

\* the stopper of CPU src runs active_load_balance_cpu_stop(); push is the
\* task kick_active_balance() asked to be pushed, NULL when load_balance()
\* asked for the active balance
StartStop(src, dst, push) ==
    /\ mig.todo["stop"] = <<>>
    /\ mig.started < MaxMig
    /\ src # dst
    /\ push \in {NULL, mig.curr[src]}
    /\ mig' = [mig EXCEPT !.todo["stop"] = active_load_balance_cpu_stop,
                          !.env["stop"] = [src |-> src, dst |-> dst, tasks |-> <<>>, push |-> push],
                          !.started = @ + 1,
                          !.curr[src] = NULL,
                          !.completed = {}]
    /\ MigUnchanged

MigStep(a) ==
    /\ mig.todo[a] # <<>>
    /\ mig' \in Exec([mig EXCEPT !.todo[a] = Tail(@), !.completed = {}], a, Head(mig.todo[a]))
    /\ MigUnchanged

OtherLock(c) ==
    /\ mig.lock[c] = NULL
    /\ mig' = [mig EXCEPT !.lock[c] = "other", !.completed = {}]
    /\ MigUnchanged

\* __schedule() on CPU c under its lock: some queued task, or none, runs
OtherSched(c) ==
    /\ mig.lock[c] = "other"
    /\ \E p \in mig.cfs_tasks[c] \cup {NULL} :
           /\ p # mig.curr[c]
           /\ mig' = [mig EXCEPT !.curr[c] = p, !.completed = {}]
    /\ MigUnchanged

OtherUnlock(c) ==
    /\ mig.lock[c] = "other"
    /\ mig' = [mig EXCEPT !.lock[c] = NULL, !.completed = {}]
    /\ MigUnchanged

NextMig ==
    \/ \E src \in Cpus, dst \in Cpus : StartLb(src, dst)
    \/ \E src \in Cpus, dst \in Cpus, push \in Tasks \cup {NULL} : StartStop(src, dst, push)
    \/ \E a \in Balancers : MigStep(a)
    \/ \E c \in Cpus : OtherLock(c)
    \/ \E c \in Cpus : OtherSched(c)
    \/ \E c \in Cpus : OtherUnlock(c)

SpecMig == InitMig /\ [][NextMig]_vars

\* ====================================== runtime distribution, SpecDist
\* One group's bandwidth pool (cfs_b) seen from several CPUs: the period
\* timer and the slack timer of the group, and the other CPUs that draw
\* from the pool, throttle and hand slack back.  Everything done between
\* raw_spin_lock(&cfs_b->lock) and the unlock is one step; distribution
\* itself runs without the lock.  The pool has a quota (not RUNTIME_INF).
MaxDist == 2

DistTimers == {"period", "slack"}
DistQuota == 3 * sched_cfs_bandwidth_slice

\* do_sched_cfs_slack_timer() up to its first unlock; refresh_soon is what
\* runtime_refresh_within() answers
do_sched_cfs_slack_timer(d, refresh_soon) ==
    IF d.distribute_running THEN d
    ELSE IF refresh_soon THEN d
    ELSE With([runtime \in {IF d.runtime > sched_cfs_bandwidth_slice THEN d.runtime ELSE 0} |->
         IF runtime = 0 THEN d
         ELSE [d EXCEPT !.distribute_running = TRUE,
                        !.pc["slack"] = "distribute",
                        !.local["slack"] = [runtime |-> runtime,
                                            expires |-> d.runtime_expires]]])

\* the while loop of do_sched_cfs_period_timer() without the test of
\* distribute_running
period_timer_while_unguarded(d) ==
    IF d.throttled /\ d.runtime > 0
    THEN [d EXCEPT !.distribute_running = TRUE,
                   !.pc["period"] = "distribute",
                   !.local["period"] = [runtime |-> d.runtime, expires |-> d.runtime_expires]]
    ELSE [d EXCEPT !.idle = FALSE, !.pc["period"] = "idle"]

\* one pass of the while loop of do_sched_cfs_period_timer(), up to the
\* unlock; refused: only distribute_running kept it out of the loop
period_timer_while(d) ==
    IF d.throttled /\ d.runtime > 0 /\ ~d.distribute_running
    THEN [d EXCEPT !.distribute_running = TRUE,
                   !.pc["period"] = "distribute",
                   !.local["period"] = [runtime |-> d.runtime, expires |-> d.runtime_expires]]
    ELSE [d EXCEPT !.idle = FALSE, !.pc["period"] = "idle",
                   !.refused = d.throttled /\ d.runtime > 0]

InitDistState ==
    [pc |-> [t \in DistTimers |-> "idle"],
     local |-> [t \in DistTimers |-> [runtime |-> 0, expires |-> 0]],
     distribute_running |-> FALSE,
     runtime |-> DistQuota,
     runtime_expires |-> 0,
     throttled |-> FALSE,
     idle |-> FALSE,
     timer_active |-> TRUE,
     refused |-> FALSE]

InitDist ==
    /\ se = InitSe
    /\ cfs_rq = InitCfsRq({})
    /\ cfs_b = InitCfsB([q \in Queues |-> RUNTIME_INF], [q \in Queues |-> default_cfs_period])
    /\ rq = InitRq(4 * MSEC, 4 * MSEC)
    /\ task = [p \in Tasks |-> "queued"]
    /\ now = 0
    /\ ops = 0
    /\ obs = InitObs
    /\ mig = NULL
    /\ dist = InitDistState
    /\ avg = NULL
    /\ tune = NULL
    /\ hmp = NULL
    /\ imb = NULL
    /\ offline = NULL
    /\ det = NULL
    /\ lb = NULL
    /\ ab = NULL
    /\ dl = NULL
    /\ lk = NULL
    /\ ret = NULL
    /\ pt = NULL
    /\ tc = NULL
    /\ hy = NULL
    /\ tm = NULL
    /\ af = NULL
    /\ cn = NULL

DistUnchanged == UNCHANGED <<se, cfs_rq, cfs_b, rq, task, now, ops, obs, mig, avg, tune, hmp, imb, offline, det, lb, ab, dl, lk, ret, pt, tc, hy, tm, af, cn>>

\* sched_cfs_period_timer() with one overrun: do_sched_cfs_period_timer() up
\* to the while loop and its first pass
PeriodFire ==
    /\ dist.pc["period"] = "idle"
    /\ dist.timer_active
    /\ dist.runtime_expires < MaxDist
    /\ dist' = IF dist.idle /\ ~dist.throttled
               THEN [dist EXCEPT !.timer_active = FALSE, !.refused = FALSE]
               ELSE With([d \in {[dist EXCEPT !.runtime = DistQuota,
                                              !.runtime_expires = @ + 1,
                                              !.refused = FALSE]} |->
                    IF ~d.throttled THEN [d EXCEPT !.idle = TRUE]
                    ELSE period_timer_while(d)])
    /\ DistUnchanged

\* distribute_cfs_runtime(), outside cfs_b->lock: the throttled queues take
\* used of the runtime offered, and the list is left empty or not
Distribute(t) ==
    /\ dist.pc[t] = "distribute"
    /\ \E used \in {0, sched_cfs_bandwidth_slice, dist.local[t].runtime} :
       \E left \in BOOLEAN :
           /\ used <= dist.local[t].runtime
           /\ dist' = [dist EXCEPT !.pc[t] = "relock", !.local[t].runtime = used,
                                   !.throttled = left, !.refused = FALSE]
    /\ DistUnchanged

\* the rest of the loop body of do_sched_cfs_period_timer() and the next test
PeriodRelock ==
    /\ dist.pc["period"] = "relock"
    /\ dist' = period_timer_while(
                   [dist EXCEPT !.distribute_running = FALSE,
                                !.runtime = @ - Min(dist.local["period"].runtime, @),
                                !.refused = FALSE])
    /\ DistUnchanged

\* sched_cfs_slack_timer(); while the period callback runs,
\* runtime_refresh_within() answers 1, and otherwise by the time left
SlackFire ==
    /\ dist.pc["slack"] = "idle"
    /\ \E refresh_soon \in BOOLEAN :
           /\ dist.pc["period"] # "idle" => refresh_soon
           /\ dist' = do_sched_cfs_slack_timer([dist EXCEPT !.refused = FALSE], refresh_soon)
    /\ DistUnchanged

\* the end of do_sched_cfs_slack_timer()
SlackRelock ==
    /\ dist.pc["slack"] = "relock"
    /\ dist' = [dist EXCEPT !.runtime = IF dist.local["slack"].expires = dist.runtime_expires
                                        THEN @ - Min(dist.local["slack"].runtime, @) ELSE @,
                            !.distribute_running = FALSE,
                            !.pc["slack"] = "idle",
                            !.refused = FALSE]
    /\ DistUnchanged

\* assign_cfs_rq_runtime() on some CPU, under cfs_b->lock
OtherAssign ==
    /\ \E min_amount \in {sched_cfs_bandwidth_slice, 2 * sched_cfs_bandwidth_slice} :
       \E d \in {IF ~dist.timer_active
                   THEN [dist EXCEPT !.runtime = DistQuota, !.timer_active = TRUE]
                   ELSE dist} :
           /\ d.runtime > 0
           /\ dist' = [d EXCEPT !.runtime = @ - Min(@, min_amount), !.idle = FALSE,
                                !.refused = FALSE]
    /\ DistUnchanged

\* throttle_cfs_rq() on some CPU adds its queue to the list
OtherThrottle ==
    /\ ~dist.throttled
    /\ dist.runtime = 0
    /\ dist' = [dist EXCEPT !.throttled = TRUE, !.refused = FALSE]
    /\ DistUnchanged

\* __return_cfs_rq_runtime() on some CPU hands slack back to the pool
OtherReturn ==
    /\ dist.runtime <= DistQuota - min_cfs_rq_runtime
    /\ dist' = [dist EXCEPT !.runtime = @ + min_cfs_rq_runtime, !.refused = FALSE]
    /\ DistUnchanged

NextDist ==
    \/ PeriodFire
    \/ PeriodRelock
    \/ SlackFire
    \/ SlackRelock
    \/ \E t \in DistTimers : Distribute(t)
    \/ OtherAssign
    \/ OtherThrottle
    \/ OtherReturn

SpecDist == InitDist /\ [][NextDist]_vars

\* ================================================== fairness, SpecFair
\* Two entities on the root queue that never sleep: the task t1 and the
\* group entity g1, which carries the task t2.  No group has a quota.  The
\* runs differ in t1's weight, in the tick length and in how far ahead in
\* virtual time t1 starts.
MaxFairTicks == 20

FairWeights == {NICE_0_LOAD, 2 * NICE_0_LOAD}
FairTicks == {1, 4, 10}
FairMaxLead == 8
FairLeads == {0, 1, FairMaxLead}

\* attach_task() of t1 and then of t2 on the idle CPU, at time 0
FairStart(weight, tick, lead) ==
    With([s0 \in {[se |-> [InitSe EXCEPT !["t1"].weight = weight,
                                         !["t1"].vruntime = lead * MSEC],
                   cfs_rq |-> InitCfsRq({}),
                   cfs_b |-> InitCfsB([q \in Queues |-> RUNTIME_INF],
                                      [q \in Queues |-> default_cfs_period]),
                   rq |-> InitRq(tick * MSEC, tick * MSEC),
                   obs |-> InitObs]} |->
    With([s1 \in {check_preempt_curr(enqueue_task_fair(s0, "t1", NOFLAG), "t1")} |->
    check_preempt_curr(enqueue_task_fair(s1, "t2", NOFLAG), "t2")])])

InitFair ==
    /\ \E weight \in FairWeights, tick \in FairTicks, lead \in FairLeads :
       \E s \in {FairStart(weight, tick, lead)} :
           /\ se = s.se
           /\ cfs_rq = s.cfs_rq
           /\ cfs_b = s.cfs_b
           /\ rq = s.rq
           /\ obs = s.obs
    /\ task = [p \in Tasks |-> IF p = "t3" THEN "away" ELSE "queued"]
    /\ now = 0
    /\ ops = 0
    /\ mig = NULL
    /\ dist = NULL
    /\ avg = NULL
    /\ tune = NULL
    /\ hmp = NULL
    /\ imb = NULL
    /\ offline = NULL
    /\ det = NULL
    /\ lb = NULL
    /\ ab = NULL
    /\ dl = NULL
    /\ lk = NULL
    /\ ret = NULL
    /\ pt = NULL
    /\ tc = NULL
    /\ hy = NULL
    /\ tm = NULL
    /\ af = NULL
    /\ cn = NULL

AdvanceFair ==
    /\ ~rq.need_resched
    /\ now < NextEvent
    /\ now' = NextEvent
    /\ now' <= MaxFairTicks * rq.tick_nsec
    /\ UNCHANGED <<se, cfs_rq, cfs_b, rq, task, ops, obs, mig, dist, avg, tune, hmp, imb, offline, det, lb, ab, dl, lk, ret, pt, tc, hy, tm, af, cn>>

NextFair ==
    \/ Schedule
    \/ Tick
    \/ AdvanceFair

SpecFair == InitFair /\ [][NextFair]_vars

\* ===================================================== picking, SpecPick
\* pick_next_entity() on a root queue that holds the task t1 and the group
\* entity g1, for every placement of the two in virtual time, every weight,
\* either of them (or neither) as curr, every setting of the three buddies,
\* and STRICT_SKIP_BUDDY set or clear (sched_feat() bits can be flipped at
\* run time).
PickEntities == {"t1", "g1"}
PickWeights == {NICE_0_LOAD \div 2, NICE_0_LOAD, 2 * NICE_0_LOAD}
PickVruntimes ==
    {0, sysctl_sched_wakeup_granularity \div 2, sysctl_sched_wakeup_granularity,
     sysctl_sched_wakeup_granularity + 1, 3 * sysctl_sched_wakeup_granularity}

\* both entities queued on the root queue, curr out of the tree
PickStart(v, w, curr, last, next, skip, strict) ==
    With([s0 \in {[se |-> [e \in Entities |->
                             IF e \in PickEntities
                             THEN [InitSe[e] EXCEPT !.vruntime = v[e], !.weight = w[e],
                                                    !.on_rq = TRUE]
                             ELSE InitSe[e]],
                   cfs_rq |-> [InitCfsRq({}) EXCEPT
                                  !["root"].curr = curr, !["root"].last = last,
                                  !["root"].next = next, !["root"].skip = skip,
                                  !["root"].nr_running = 2,
                                  !["root"].load_weight = w["t1"] + w["g1"],
                                  !["root"].min_vruntime = 0],
                   cfs_b |-> InitCfsB([q \in Queues |-> RUNTIME_INF],
                                      [q \in Queues |-> default_cfs_period]),
                   rq |-> [InitRq(4 * MSEC, 4 * MSEC) EXCEPT !.strict_skip_buddy = strict,
                                                             !.curr = "t1"],
                   obs |-> InitObs]} |->
    With([s1 \in {IF curr # "t1" THEN __enqueue_entity(s0, "root", "t1") ELSE s0} |->
    IF curr # "g1" THEN __enqueue_entity(s1, "root", "g1") ELSE s1])])

InitPick ==
    /\ \E v \in [PickEntities -> PickVruntimes], w \in [PickEntities -> PickWeights] :
       \E curr \in PickEntities \cup {NULL}, last \in PickEntities \cup {NULL} :
       \E next \in PickEntities \cup {NULL}, skip \in PickEntities \cup {NULL} :
       \E strict \in BOOLEAN :
       \E s \in {PickStart(v, w, curr, last, next, skip, strict)} :
           /\ se = s.se
           /\ cfs_rq = s.cfs_rq
           /\ cfs_b = s.cfs_b
           /\ rq = s.rq
           /\ obs = s.obs
    /\ task = [p \in Tasks |-> IF p = "t3" THEN "away" ELSE "queued"]
    /\ now = 0
    /\ ops = 0
    /\ mig = NULL
    /\ dist = NULL
    /\ avg = NULL
    /\ tune = NULL
    /\ hmp = NULL
    /\ imb = NULL
    /\ offline = NULL
    /\ det = NULL
    /\ lb = NULL
    /\ ab = NULL
    /\ dl = NULL
    /\ lk = NULL
    /\ ret = NULL
    /\ pt = NULL
    /\ tc = NULL
    /\ hy = NULL
    /\ tm = NULL
    /\ af = NULL
    /\ cn = NULL

\* pick_next_entity() on the root queue
Pick ==
    /\ ops = 0
    /\ ops' = 1
    /\ \E r \in {pick_next_entity(St, "root", cfs_rq["root"].curr)} :
           Commit([r.st EXCEPT !.obs.pick = r.se])
    /\ UNCHANGED <<task, now, mig, dist, avg, tune, hmp, imb, offline, det, lb, ab, dl, lk, ret, pt, tc, hy, tm, af, cn>>

NextPick == Pick

SpecPick == InitPick /\ [][NextPick]_vars

\* ================================================================ load tracking
\* The decayed averages of one queue and of the entities that come and go
\* (SpecAvg). An average is the record sa: last_update_time, period_contrib,
\* load_sum, util_sum, load_avg, util_avg. The unsigned words are U64Mod wide.
\* runnable_load_avg/sum and the HMP scaled statistic are left out.

LOAD_AVG_PERIOD == 32
LOAD_AVG_MAX == 47742
LOAD_AVG_MAX_N == 345
SCHED_CAPACITY_SHIFT == 10

MaxAvgOps == 7
AvgEntities == {"t1", "t2"}
AvgWeight == [e \in AvgEntities |-> IF e = "t1" THEN NICE_0_LOAD ELSE NICE_0_LOAD \div 2]
\* the time between two events: part of a period, a period, a half-life
AvgSteps == {300 * 1024, 1024 * 1024, LOAD_AVG_PERIOD * 1024 * 1024}

\* the 32-bit factors as <<high 16 bits, low 16 bits>>
runnable_avg_yN_inv ==
    <<<<65535, 65535>>, <<64131, 45786>>, <<62757, 32020>>, <<61412, 47514>>,
      <<60096, 50918>>, <<58809, 1766>>, <<57548, 57067>>, <<56315, 46998>>,
      <<55108, 64713>>, <<53928, 7569>>, <<52772, 35860>>, <<51641, 48517>>,
      <<50535, 10768>>, <<49452, 19657>>, <<48392, 41886>>, <<47355, 44870>>,
      <<46340, 62259>>, <<45347, 62849>>, <<44376, 16105>>, <<43425, 23220>>,
      <<42494, 54953>>, <<41584, 17154>>, <<40693, 12895>>, <<39821, 14777>>,
      <<38967, 61520>>, <<38132, 61352>>, <<37315, 54131>>, <<36516, 14730>>,
      <<35733, 49635>>, <<34968, 3712>>, <<34218, 50023>>, <<33485, 34456>>>>

runnable_avg_yN_sum ==
    <<0, 1002, 1982, 2941, 3880, 4798, 5697, 6576, 7437, 8279, 9103,
      9909, 10698, 11470, 12226, 12966, 13690, 14398, 15091, 15769, 16433, 17082,
      17718, 18340, 18949, 19545, 20128, 20698, 21256, 21802, 22336, 22859, 23371>>

\* (val * mul) >> 32 for val < 2^30, by 15- and 16-bit limbs
mul_u64_u32_shr(val, mul) ==
    LET K == 2 ^ 15
        vh == val \div K
        vl == val % K
        C == vl * mul[1]
        G == (vh * mul[2] + (vl * mul[2]) \div K) \div 2
    IN (vh * mul[1] + C \div K + G \div K + ((C % K) + (G % K)) \div K) \div 2

decay_load(val, n) ==
    IF n = 0 THEN val
    ELSE IF n > LOAD_AVG_PERIOD * 63 THEN 0
    ELSE mul_u64_u32_shr(val \div (2 ^ (n \div LOAD_AVG_PERIOD)),
                         runnable_avg_yN_inv[(n % LOAD_AVG_PERIOD) + 1])

\* the do-while loop of __compute_runnable_contrib()
RECURSIVE contrib_loop(_, _)
contrib_loop(contrib, n) ==
    With([c \in {contrib \div 2 + runnable_avg_yN_sum[LOAD_AVG_PERIOD + 1]} |->
        IF n - LOAD_AVG_PERIOD > LOAD_AVG_PERIOD
        THEN contrib_loop(c, n - LOAD_AVG_PERIOD)
        ELSE decay_load(c, n - LOAD_AVG_PERIOD)
             + runnable_avg_yN_sum[n - LOAD_AVG_PERIOD + 1]])

__compute_runnable_contrib(n) ==
    IF n <= LOAD_AVG_PERIOD THEN runnable_avg_yN_sum[n + 1]
    ELSE IF n >= LOAD_AVG_MAX_N THEN LOAD_AVG_MAX
    ELSE contrib_loop(0, n)

cap_scale(v, s) == (v * s) \div (2 ^ SCHED_CAPACITY_SHIFT)

\* __update_load_avg() on the average sa: the average and whether it decayed.
\* arch_scale_freq_capacity() and arch_scale_cpu_capacity() are the full scale.
__update_load_avg(t, sa, weight, running) ==
    With([scale \in {2 ^ SCHED_CAPACITY_SHIFT} |->
    With([delta \in {(t - sa.last_update_time) \div 1024} |->
    IF t - sa.last_update_time < 0
    THEN [sa |-> [sa EXCEPT !.last_update_time = t], decayed |-> FALSE]
    ELSE IF delta = 0 THEN [sa |-> sa, decayed |-> FALSE]
    ELSE IF delta + sa.period_contrib >= 1024
    THEN With([delta_w \in {1024 - sa.period_contrib} |->
         With([periods \in {(delta - delta_w) \div 1024} |->
         With([rest \in {(delta - delta_w) % 1024} |->
         With([contrib \in {cap_scale(__compute_runnable_contrib(periods), scale)} |->
         With([load_sum \in {decay_load(sa.load_sum + weight * cap_scale(delta_w, scale),
                                        periods + 1)
                             + weight * contrib + weight * cap_scale(rest, scale)} |->
         With([util_sum \in {decay_load(sa.util_sum + (IF running THEN cap_scale(delta_w, scale) * scale
                                                       ELSE 0), periods + 1)
                             + (IF running THEN contrib * scale + cap_scale(rest, scale) * scale
                                ELSE 0)} |->
             [sa |-> [last_update_time |-> t,
                      period_contrib |-> rest,
                      load_sum |-> load_sum,
                      util_sum |-> util_sum,
                      load_avg |-> load_sum \div LOAD_AVG_MAX,
                      util_avg |-> util_sum \div LOAD_AVG_MAX],
              decayed |-> TRUE]])])])])])])
    ELSE [sa |-> [sa EXCEPT !.last_update_time = t,
                            !.load_sum = @ + weight * cap_scale(delta, scale),
                            !.util_sum = @ + (IF running THEN cap_scale(delta, scale) * scale ELSE 0),
                            !.period_contrib = @ + delta],
          decayed |-> FALSE]])])

\* a subtraction that wraps around
sub_positive_wrapping(var, val) == (var - val) % U64Mod

sub_positive(var, val) ==
    With([res \in {(var - val) % U64Mod} |-> IF res > var THEN 0 ELSE res])

init_entity_runnable_average(e) ==
    [last_update_time |-> 0,
     period_contrib |-> 1023,
     load_avg |-> AvgWeight[e],
     load_sum |-> AvgWeight[e] * LOAD_AVG_MAX,
     util_avg |-> NICE_0_LOAD,
     util_sum |-> NICE_0_LOAD * LOAD_AVG_MAX]

\* cfs_rq->load.weight and cfs_rq->curr != NULL of the queue
AvgQueueWeight(a) ==
    (IF a.on_rq["t1"] THEN AvgWeight["t1"] ELSE 0) + (IF a.on_rq["t2"] THEN AvgWeight["t2"] ELSE 0)

\* a: the queue's average q with the pending removals, the entities'
\* averages se, which of them are queued and where they belong, the clock
update_cfs_rq_load_avg(a) ==
    With([a1 \in {IF a.removed_load_avg # 0
                  THEN [a EXCEPT !.removed_load_avg = 0,
                                 !.q.load_avg = sub_positive(@, a.removed_load_avg),
                                 !.q.load_sum = sub_positive(@, U64(a.removed_load_avg * LOAD_AVG_MAX)),
                                 !.clamped = @ \/ a.removed_load_avg > a.q.load_avg
                                               \/ a.removed_load_avg * LOAD_AVG_MAX > a.q.load_sum]
                  ELSE a} |->
    With([a2 \in {IF a1.removed_util_avg # 0
                  THEN [a1 EXCEPT !.removed_util_avg = 0,
                                  !.q.util_avg = sub_positive(@, a1.removed_util_avg),
                                  !.q.util_sum = sub_positive(@, U64(a1.removed_util_avg * LOAD_AVG_MAX)),
                                  !.clamped = @ \/ a1.removed_util_avg > a1.q.util_avg
                                                \/ a1.removed_util_avg * LOAD_AVG_MAX > a1.q.util_sum]
                  ELSE a1} |->
        [a2 EXCEPT !.q = __update_load_avg(a.clock, a2.q, AvgQueueWeight(a2),
                                           a2.curr # NULL).sa]])])

\* __update_load_avg() of the entity's own average
update_se_avg(a, e, t, weight) ==
    [a EXCEPT !.se[e] = __update_load_avg(t, a.se[e], weight, a.curr = e).sa]

update_load_avg(a, e) ==
    update_cfs_rq_load_avg(
        update_se_avg(a, e, a.clock, IF a.on_rq[e] THEN AvgWeight[e] ELSE 0))

attach_entity_load_avg(a, e) ==
    With([a1 \in {IF a.age_load /\ a.se[e].last_update_time # 0
                  THEN [a EXCEPT !.se[e] = __update_load_avg(a.q.last_update_time, a.se[e],
                                                             0, FALSE).sa]
                  ELSE a} |->
        [a1 EXCEPT !.se[e].last_update_time = a1.q.last_update_time,
                   !.q.load_avg = U64(@ + a1.se[e].load_avg),
                   !.q.load_sum = U64(@ + a1.se[e].load_sum),
                   !.q.util_avg = U64(@ + a1.se[e].util_avg),
                   !.q.util_sum = U64(@ + a1.se[e].util_sum)]])

detach_entity_load_avg(a, e) ==
    With([a1 \in {update_se_avg(a, e, a.q.last_update_time,
                                IF a.on_rq[e] THEN AvgWeight[e] ELSE 0)} |->
        [a1 EXCEPT !.q.load_avg = sub_positive(@, a1.se[e].load_avg),
                   !.q.load_sum = sub_positive(@, a1.se[e].load_sum),
                   !.q.util_avg = sub_positive(@, a1.se[e].util_avg),
                   !.q.util_sum = sub_positive(@, a1.se[e].util_sum),
                   !.clamped = @ \/ a1.se[e].load_avg > a1.q.load_avg
                                 \/ a1.se[e].load_sum > a1.q.load_sum
                                 \/ a1.se[e].util_avg > a1.q.util_avg
                                 \/ a1.se[e].util_sum > a1.q.util_sum]])

enqueue_entity_load_avg(a, e) ==
    With([migrated \in {a.se[e].last_update_time = 0} |->
    With([a1 \in {IF migrated THEN a
                  ELSE update_se_avg(a, e, a.clock, IF a.on_rq[e] THEN AvgWeight[e] ELSE 0)} |->
    With([a2 \in {update_cfs_rq_load_avg(a1)} |->
        IF migrated THEN attach_entity_load_avg(a2, e) ELSE a2])])])

remove_entity_load_avg(a, e) ==
    IF a.se[e].last_update_time = 0 THEN a
    ELSE With([a1 \in {update_se_avg(a, e, a.q.last_update_time, 0)} |->
             [a1 EXCEPT !.removed_load_avg = @ + a1.se[e].load_avg,
                        !.removed_util_avg = @ + a1.se[e].util_avg]])

InitAvgState(age_load) ==
    [clock |-> 1024 * 1024,
     ops |-> 0,
     age_load |-> age_load,
     q |-> [last_update_time |-> 0, period_contrib |-> 0, load_sum |-> 0,
            util_sum |-> 0, load_avg |-> 0, util_avg |-> 0],
     removed_load_avg |-> 0,
     removed_util_avg |-> 0,
     se |-> [e \in AvgEntities |-> init_entity_runnable_average(e)],
     on_rq |-> [e \in AvgEntities |-> FALSE],
     at |-> [e \in AvgEntities |-> "away"],
     curr |-> NULL,
     clamped |-> FALSE]

InitAvg ==
    /\ se = InitSe
    /\ cfs_rq = InitCfsRq({})
    /\ cfs_b = InitCfsB([q \in Queues |-> RUNTIME_INF], [q \in Queues |-> default_cfs_period])
    /\ rq = InitRq(4 * MSEC, 4 * MSEC)
    /\ task = [p \in Tasks |-> "away"]
    /\ now = 0
    /\ ops = 0
    /\ obs = InitObs
    /\ mig = NULL
    /\ avg \in {InitAvgState(age_load) : age_load \in BOOLEAN}
    /\ dist = NULL
    /\ tune = NULL
    /\ hmp = NULL
    /\ imb = NULL
    /\ offline = NULL
    /\ det = NULL
    /\ lb = NULL
    /\ ab = NULL
    /\ dl = NULL
    /\ lk = NULL
    /\ ret = NULL
    /\ pt = NULL
    /\ tc = NULL
    /\ hy = NULL
    /\ tm = NULL
    /\ af = NULL
    /\ cn = NULL

AvgUnchanged == UNCHANGED <<se, cfs_rq, cfs_b, rq, task, now, ops, obs, mig, dist, tune, hmp, imb, offline, det, lb, ab, dl, lk, ret, pt, tc, hy, tm, af, cn>>

\* one more event
AvgStep(a) ==
    /\ avg.ops < MaxAvgOps
    /\ avg' = [a EXCEPT !.ops = @ + 1]
    /\ AvgUnchanged

AvgAdvance ==
    \E d \in AvgSteps : AvgStep([avg EXCEPT !.clock = @ + d])

\* enqueue_entity(): a task that wakes here, or comes from elsewhere
AvgEnqueue(e) ==
    /\ ~avg.on_rq[e]
    /\ avg.at[e] # "detached"
    /\ AvgStep([enqueue_entity_load_avg(avg, e) EXCEPT
                   !.on_rq[e] = TRUE,
                   !.at[e] = "attached",
                   !.curr = IF @ = NULL THEN e ELSE @])

\* dequeue_entity(): dequeue_entity_load_avg(), then the queue picks another
AvgDequeue(e) ==
    /\ avg.on_rq[e]
    /\ AvgStep([update_load_avg(avg, e) EXCEPT
                   !.on_rq[e] = FALSE,
                   !.curr = IF @ # e THEN @
                            ELSE IF \E o \in AvgEntities \ {e} : avg.on_rq[o]
                            THEN CHOOSE o \in AvgEntities \ {e} : avg.on_rq[o]
                            ELSE NULL])

\* entity_tick(): update_load_avg(curr, 1)
AvgTick ==
    /\ avg.curr # NULL
    /\ AvgStep(update_load_avg(avg, avg.curr))

\* switched_from_fair(): detach_task_cfs_rq() of a task that left the queue
AvgDetach(e) ==
    /\ avg.at[e] = "attached"
    /\ ~avg.on_rq[e]
    /\ AvgStep([detach_entity_load_avg(avg, e) EXCEPT !.at[e] = "detached"])

\* switched_to_fair(): attach_task_cfs_rq()
AvgAttach(e) ==
    /\ avg.at[e] = "detached"
    /\ AvgStep([attach_entity_load_avg(avg, e) EXCEPT !.at[e] = "attached"])

\* migrate_task_rq_fair() of a sleeping task
AvgMigrate(e) ==
    /\ avg.at[e] = "attached"
    /\ ~avg.on_rq[e]
    /\ AvgStep([remove_entity_load_avg(avg, e) EXCEPT
                   !.se[e].last_update_time = 0,
                   !.at[e] = "away"])

NextAvg ==
    \/ AvgAdvance
    \/ AvgTick
    \/ \E e \in AvgEntities :
           \/ AvgEnqueue(e)
           \/ AvgDequeue(e)
           \/ AvgDetach(e)
           \/ AvgAttach(e)
           \/ AvgMigrate(e)

SpecAvg == InitAvg /\ [][NextAvg]_vars

\* ==================================================== clock readings, SpecCurr
\* update_curr() under a clock that may stand still or read less than it did:
\* t1 waits on the root queue or runs, t2 runs or waits in the group g1,
\* which has a quota; rq_clock_task() takes the readings CurrClocks in any
\* order and update_curr() is called on any queue after any reading.
MaxCurrOps == 4

CurrStartTime == 10 * MSEC
CurrClocks ==
    {CurrStartTime - 4 * MSEC, CurrStartTime - 1, CurrStartTime, CurrStartTime + 1,
     CurrStartTime + MSEC, CurrStartTime + 6 * MSEC}

\* attach_task() of t1 and of t2 at CurrStartTime, then __schedule()
CurrStart(lead) ==
    With([s0 \in {[se |-> [InitSe EXCEPT !["t1"].vruntime = lead],
                   cfs_rq |-> InitCfsRq({"g1"}),
                   cfs_b |-> InitCfsB(BwQuota, BwPeriod),
                   rq |-> [InitRq(4 * MSEC, 4 * MSEC) EXCEPT !.clock = CurrStartTime],
                   obs |-> InitObs]} |->
    With([s1 \in {check_preempt_curr(enqueue_task_fair(s0, "t1", NOFLAG), "t1")} |->
    With([s2 \in {check_preempt_curr(enqueue_task_fair(s1, "t2", NOFLAG), "t2")} |->
        schedule_pick(s2, NULL)])])])

InitCurr ==
    /\ \E lead \in {0, 4 * MSEC} :
       \E s \in {CurrStart(lead)} :
           /\ se = s.se
           /\ cfs_rq = s.cfs_rq
           /\ cfs_b = s.cfs_b
           /\ rq = s.rq
           /\ obs = s.obs
    /\ task = [p \in Tasks |-> IF p = "t3" THEN "away" ELSE "queued"]
    /\ now = CurrStartTime
    /\ ops = 0
    /\ mig = NULL
    /\ dist = NULL
    /\ avg = NULL
    /\ tune = NULL
    /\ hmp = NULL
    /\ imb = NULL
    /\ offline = NULL
    /\ det = NULL
    /\ lb = NULL
    /\ ab = NULL
    /\ dl = NULL
    /\ lk = NULL
    /\ ret = NULL
    /\ pt = NULL
    /\ tc = NULL
    /\ hy = NULL
    /\ tm = NULL
    /\ af = NULL
    /\ cn = NULL

\* rq_clock_task() reads c
CurrClock ==
    /\ ops < MaxCurrOps
    /\ ops' = ops + 1
    /\ \E c \in CurrClocks \ {now} : now' = c
    /\ UNCHANGED <<se, cfs_rq, cfs_b, rq, task, obs, mig, dist, avg, tune, hmp, imb, offline, det, lb, ab, dl, lk, ret, pt, tc, hy, tm, af, cn>>

\* update_curr(cfs_rq) of the queue q
CurrUpdate(q) ==
    /\ ops < MaxCurrOps
    /\ ops' = ops + 1
    /\ cfs_rq[q].curr # NULL
    /\ Commit([update_curr(update_rq_clock(St), q) EXCEPT
                  !.obs.delta_exec = <<now - se[cfs_rq[q].curr].exec_start>>])
    /\ UNCHANGED <<task, now, mig, dist, avg, tune, hmp, imb, offline, det, lb, ab, dl, lk, ret, pt, tc, hy, tm, af, cn>>

NextCurr ==
    \/ CurrClock
    \/ \E q \in Queues : CurrUpdate(q)

SpecCurr == InitCurr /\ [][NextCurr]_vars

\* ========================================================= tunables, SpecTune
\* Writes to the HMP tunables through sched_hmp_proc_update_handler().  pct
\* holds the sysctl_sched_* variables, applied the variables that
\* set_hmp_defaults() derives from them (kept in the sysctl's unit), last the
\* write that was handled last.  proc_dointvec_minmax() either stores the
\* value written or refuses it; which, depends on the sysctl table.
MaxTuneOps == 3

HmpTunables ==
    {"upmigrate_pct", "downmigrate_pct", "small_task_pct", "grp_upmigrate_pct",
     "grp_downmigrate_pct", "upmigrate_min_nice", "min_runtime"}
TuneValues == {0 - 1, 0, 50, 90, 100, 101, 150}

\* an int read through an unsigned int pointer
Unsigned(v) == v % U64Mod

set_hmp_defaults(u) == [u EXCEPT !.applied = u.pct]

\* *data = old_val; ret = -EINVAL that forgets to put the old value back
hmp_reject_keep_new(u, data, old_val) ==
    [u EXCEPT !.last.ret = "EINVAL"]

\* *data = old_val; ret = -EINVAL; goto done
hmp_reject(u, data, old_val) ==
    [u EXCEPT !.pct[data] = old_val, !.last.ret = "EINVAL"]

\* a write of value to the tunable data; stored: proc_dointvec_minmax() took it
sched_hmp_proc_update_handler(u0, data, value, stored) ==
    With([old_val \in {u0.pct[data]} |->
    With([u \in {[u0 EXCEPT !.last = [data |-> data, value |-> value, old_val |-> old_val,
                                      ret |-> "0"]]} |->
    IF ~u.sched_enable_hmp THEN u
    ELSE IF ~stored THEN [u EXCEPT !.last.ret = "EINVAL"]
    ELSE With([u1 \in {[u EXCEPT !.pct[data] = value]} |->
         IF old_val = value THEN u1
         ELSE IF data = "min_runtime"
         THEN [u1 EXCEPT !.applied["min_runtime"] = value]
         ELSE IF data \in {"grp_upmigrate_pct", "grp_downmigrate_pct"}
         THEN IF Unsigned(u1.pct["grp_downmigrate_pct"]) > Unsigned(u1.pct["grp_upmigrate_pct"])
              THEN hmp_reject(u1, data, old_val)
              ELSE set_hmp_defaults(u1)
         ELSE IF data = "upmigrate_min_nice"
         THEN IF value < 0 - 20 \/ value > 19
              THEN hmp_reject(u1, data, old_val)
              ELSE set_hmp_defaults(u1)
         ELSE IF \/ Unsigned(u1.pct["downmigrate_pct"]) > Unsigned(u1.pct["upmigrate_pct"])
                 \/ Unsigned(value) > 100
              THEN hmp_reject(u1, data, old_val)
              ELSE set_hmp_defaults(u1)])])])

\* the tunables whose change makes sched_hmp_proc_update_handler() count
\* the big and small tasks of every run queue again
update_task_count_never(data) == FALSE

update_task_count(data) ==
    data \in {"upmigrate_pct", "small_task_pct", "upmigrate_min_nice"}

\* the values the variables are defined with
InitTuneState(enable) ==
    With([pct \in {[t \in HmpTunables |->
                      CASE t = "upmigrate_pct" -> 80
                        [] t = "downmigrate_pct" -> 60
                        [] t = "small_task_pct" -> 10
                        [] t = "grp_upmigrate_pct" -> 120
                        [] t = "grp_downmigrate_pct" -> 100
                        [] t = "upmigrate_min_nice" -> 15
                        [] OTHER -> 0]} |->
        [pct |-> pct,
         applied |-> pct,
         sched_enable_hmp |-> enable,
         ops |-> 0,
         last |-> [data |-> NULL, value |-> 0, old_val |-> 0, ret |-> "0"]]])

InitTune ==
    /\ se = InitSe
    /\ cfs_rq = InitCfsRq({})
    /\ cfs_b = InitCfsB([q \in Queues |-> RUNTIME_INF], [q \in Queues |-> default_cfs_period])
    /\ rq = InitRq(4 * MSEC, 4 * MSEC)
    /\ task = [p \in Tasks |-> "away"]
    /\ now = 0
    /\ ops = 0
    /\ obs = InitObs
    /\ mig = NULL
    /\ tune \in {InitTuneState(enable) : enable \in BOOLEAN}
    /\ dist = NULL
    /\ avg = NULL
    /\ hmp = NULL
    /\ imb = NULL
    /\ offline = NULL
    /\ det = NULL
    /\ lb = NULL
    /\ ab = NULL
    /\ dl = NULL
    /\ lk = NULL
    /\ ret = NULL
    /\ pt = NULL
    /\ tc = NULL
    /\ hy = NULL
    /\ tm = NULL
    /\ af = NULL
    /\ cn = NULL

TuneWrite(data, value) ==
    /\ tune.ops < MaxTuneOps
    /\ \E stored \in BOOLEAN :
           tune' = [sched_hmp_proc_update_handler(tune, data, value, stored) EXCEPT
                        !.ops = @ + 1]
    /\ UNCHANGED <<se, cfs_rq, cfs_b, rq, task, now, ops, obs, mig, dist, avg, hmp, imb, offline, det, lb, ab, dl, lk, ret, pt, tc, hy, tm, af, cn>>

NextTune == \E data \in HmpTunables, value \in TuneValues : TuneWrite(data, value)

SpecTune == InitTune /\ [][NextTune]_vars

\* ==================================================== CPU selection, SpecSel
\* select_best_cpu() on a machine of two clusters: CPUs 0 and 1 are the
\* little cluster, one frequency domain of capacity 512, and CPU 2 is the big
\* cluster.  h holds what the function reads: each CPU's run queue, the
\* tunables in percent of max_task_load(), and sched_boost().  Power-aware
\* scheduling is off, as sysctl_sched_enable_power_aware is defined, and the
\* task is in no related thread group.
INT_MAX == 2147483647
ULLONG_MAX == U64Mod - 1
UP_MIGRATION == 1
DOWN_MIGRATION == 2
EA_MIGRATION == 3
IRQLOAD_MIGRATION == 4
PREFERRED_CLUSTER_MIGRATION == 5

HmpCpus == {0, 1, 2}
HmpReasons == {0, UP_MIGRATION}
HmpLoads == {4, 30, 45}

cpumask_first(mask) == CHOOSE i \in mask : \A j \in mask : i <= j

scale_load_to_cpu(h, load, cpu) == (load * h.rq[cpu].load_scale_factor) \div 1024

is_small_task(h, p) == (p.load * h.max_load_scale_factor) \div 1024 < h.sched_small_task

cpu_load(h, cpu) == scale_load_to_cpu(h, h.rq[cpu].cumulative_runnable_avg, cpu)

cpu_load_sync(h, cpu, sync) ==
    With([load \in {h.rq[cpu].cumulative_runnable_avg} |->
        IF sync /\ cpu = h.smp_processor_id
        THEN IF load > h.rq[cpu].curr_demand
             THEN scale_load_to_cpu(h, load - h.rq[cpu].curr_demand, cpu)
             ELSE scale_load_to_cpu(h, 0, cpu)
        ELSE scale_load_to_cpu(h, load, cpu)])

spill_threshold_crossed(h, task_load, cpuload, cpu) ==
    \/ task_load + cpuload > h.sched_spill_load
    \/ h.rq[cpu].nr_running + 1 > h.sysctl_sched_spill_nr_run

mostly_idle_cpu(h, cpu) ==
    /\ cpu_load(h, cpu) <= h.rq[cpu].mostly_idle_load
    /\ h.rq[cpu].nr_running <= h.rq[cpu].mostly_idle_nr_run
    /\ ~h.rq[cpu].high_irqload

\* mostly_idle_cpu_sync() that leaves the number of running tasks out
mostly_idle_cpu_sync_load_only(h, cpu, load, sync) ==
    load <= h.rq[cpu].mostly_idle_load

mostly_idle_cpu_sync(h, cpu, load, sync) ==
    With([nr_running \in {IF sync /\ cpu = h.smp_processor_id
                          THEN h.rq[cpu].nr_running - 1
                          ELSE h.rq[cpu].nr_running} |->
        /\ load <= h.rq[cpu].mostly_idle_load
        /\ nr_running <= h.rq[cpu].mostly_idle_nr_run])

\* rq->curr == rq->idle and nothing runnable
idle_cpu(h, cpu) == h.rq[cpu].nr_running = 0

\* task_load_will_fit() with one threshold for both directions
task_load_will_fit_no_hysteresis(h, p, task_load, cpu) ==
    IF h.rq[cpu].capacity = h.max_capacity THEN TRUE
    ELSE IF h.sched_boost THEN h.rq[cpu].capacity > h.rq[p.cpu].capacity
    ELSE IF p.nice > h.sched_upmigrate_min_nice \/ h.upmigrate_discouraged THEN TRUE
    ELSE task_load < h.sched_upmigrate

task_load_will_fit(h, p, task_load, cpu) ==
    IF h.rq[cpu].capacity = h.max_capacity THEN TRUE
    ELSE IF h.sched_boost THEN h.rq[cpu].capacity > h.rq[p.cpu].capacity
    ELSE IF p.nice > h.sched_upmigrate_min_nice \/ h.upmigrate_discouraged THEN TRUE
    ELSE IF h.rq[p.cpu].capacity > h.rq[cpu].capacity
         THEN task_load < h.sched_downmigrate
         ELSE task_load < h.sched_upmigrate

task_will_fit(h, p, cpu) ==
    task_load_will_fit(h, p, scale_load_to_cpu(h, p.load, cpu), cpu)

eligible_cpu(h, task_load, cpuload, cpu, sync) ==
    IF h.rq[cpu].high_irqload THEN FALSE
    ELSE IF mostly_idle_cpu_sync(h, cpu, cpuload, sync) THEN TRUE
    ELSE IF h.rq[cpu].capacity # h.max_capacity
         THEN ~spill_threshold_crossed(h, task_load, cpuload, cpu)
         ELSE FALSE

\* with sysctl_sched_enable_power_aware 0
power_delta_exceeded(cpu_cost, base_cost) ==
    ~(base_cost = 0 \/ cpu_cost = base_cost)

\* with sysctl_sched_enable_power_aware 0: cpu_max_possible_capacity(cpu)
power_cost(h, task_load, cpu) == h.rq[cpu].capacity

\* the do-while loop of best_small_task_cpu(): the body for CPU i, then the
\* loop test; v.ret is the CPU the loop returns, if it does
RECURSIVE small_task_loop(_, _, _, _, _)
small_task_while(h, p, sync, v) ==
    IF v.search_cpu = {} THEN v
    ELSE small_task_loop(h, p, sync, cpumask_first(v.search_cpu), v)

small_task_loop(h, p, sync, i, v) ==
    IF h.rq[i].capacity = h.max_capacity /\ h.hmp_capable
    THEN small_task_while(h, p, sync,
             [v EXCEPT !.fb_search_cpu = v.search_cpu \cap h.rq[i].freq_domain_cpumask,
                       !.search_cpu = v.search_cpu \ h.rq[i].freq_domain_cpumask])
    ELSE With([v1 \in {[v EXCEPT !.search_cpu = @ \ {i}]} |->
         IF h.rq[i].high_irqload THEN small_task_while(h, p, sync, v1)
         ELSE IF idle_cpu(h, i) /\ h.rq[i].cstate # 0
         THEN small_task_while(h, p, sync,
                  IF h.rq[i].cstate < v1.min_cstate
                  THEN [v1 EXCEPT !.min_cstate_cpu = i, !.min_cstate = h.rq[i].cstate]
                  ELSE v1)
         ELSE With([cpuload \in {cpu_load_sync(h, i, sync)} |->
              IF h.sysctl_sched_restrict_tasks_spread
              THEN small_task_while(h, p, sync,
                       IF /\ ~spill_threshold_crossed(h, scale_load_to_cpu(h, p.load, i),
                                                      cpuload, i)
                          /\ cpuload < v1.min_load
                       THEN [v1 EXCEPT !.min_load = cpuload, !.best_busy_cpu = i]
                       ELSE v1)
              ELSE IF mostly_idle_cpu_sync(h, i, cpuload, sync)
                   THEN [v1 EXCEPT !.ret = i]
                   ELSE small_task_while(h, p, sync, v1)])])

\* for_each_cpu(i, &search_cpu) of best_small_task_cpu(): the least loaded
\* CPU that stays under the spill threshold
RECURSIVE small_task_busy(_, _, _, _, _)
small_task_busy(h, p, sync, mask, v) ==
    IF mask = {} THEN v
    ELSE With([i \in {cpumask_first(mask)} |->
         With([cpuload \in {cpu_load_sync(h, i, sync)} |->
             small_task_busy(h, p, sync, mask \ {i},
                 IF /\ ~h.rq[i].high_irqload
                    /\ ~spill_threshold_crossed(h, scale_load_to_cpu(h, p.load, i),
                                                cpuload, i)
                    /\ \/ cpuload < v.min_load
                       \/ i = p.cpu /\ cpuload = v.min_load
                 THEN [v EXCEPT !.min_load = cpuload, !.best_busy_cpu = i]
                 ELSE v)])])

\* for_each_cpu(i, &fb_search_cpu) of best_small_task_cpu(): the cheapest CPU
RECURSIVE small_task_fallback(_, _, _, _)
small_task_fallback(h, p, mask, v) ==
    IF mask = {} THEN v
    ELSE With([i \in {cpumask_first(mask)} |->
         With([cpu_cost \in {power_cost(h, scale_load_to_cpu(h, p.load, i), i)} |->
             small_task_fallback(h, p, mask \ {i},
                 IF \/ cpu_cost < v.min_cost
                    \/ i = p.cpu /\ cpu_cost = v.min_cost
                 THEN [v EXCEPT !.fallback_cpu = i, !.min_cost = cpu_cost]
                 ELSE v)])])

\* a choice for a small task that takes the least loaded of the mostly idle
\* CPUs the task is allowed on
best_small_task_cpu_least_loaded(h, p, sync) ==
    With([idle \in {{c \in p.cpus_allowed \cap h.cpu_active_mask : mostly_idle_cpu(h, c)}} |->
        IF idle = {} THEN 0 - 1
        ELSE CHOOSE c \in idle :
                 \A d \in idle : \/ cpu_load(h, c) < cpu_load(h, d)
                                 \/ cpu_load(h, c) = cpu_load(h, d) /\ c <= d])

best_small_task_cpu(h, p, sync) ==
    With([search_cpu \in {p.cpus_allowed \cap h.cpu_active_mask} |->
    IF search_cpu = {} THEN 0 - 1
    ELSE
    With([v \in {small_task_loop(h, p, sync,
                     IF p.cpu \in search_cpu THEN p.cpu ELSE cpumask_first(search_cpu),
                     [search_cpu |-> search_cpu, fb_search_cpu |-> {},
                      min_cstate_cpu |-> 0 - 1, min_cstate |-> INT_MAX,
                      best_busy_cpu |-> 0 - 1, min_load |-> ULLONG_MAX,
                      fallback_cpu |-> 0 - 1, min_cost |-> INT_MAX,
                      ret |-> 0 - 1])} |->
    IF v.ret # 0 - 1 THEN v.ret
    ELSE IF v.best_busy_cpu # 0 - 1 THEN v.best_busy_cpu
    ELSE IF v.min_cstate_cpu # 0 - 1 THEN v.min_cstate_cpu
    ELSE
    With([v2 \in {IF ~h.sysctl_sched_restrict_tasks_spread
                  THEN small_task_busy(h, p, sync, search_cpu \ v.fb_search_cpu, v)
                  ELSE v} |->
    IF v2.best_busy_cpu # 0 - 1 THEN v2.best_busy_cpu
    ELSE small_task_fallback(h, p, v2.fb_search_cpu, v2).fallback_cpu])])])

skip_freq_domain(h, tcpu, cpu, reason) ==
    CASE reason = UP_MIGRATION -> h.rq[cpu].capacity <= h.rq[tcpu].capacity
      [] reason = DOWN_MIGRATION -> h.rq[cpu].capacity >= h.rq[tcpu].capacity
      [] reason = EA_MIGRATION -> h.rq[cpu].capacity # h.rq[tcpu].capacity
      [] reason = PREFERRED_CLUSTER_MIGRATION -> TRUE
      [] OTHER -> FALSE

skip_cpu(h, p, cpu, task_load, reason) ==
    IF reason = 0 THEN FALSE
    ELSE IF h.rq[cpu].reserved THEN TRUE
    ELSE IF reason = EA_MIGRATION
         THEN power_cost(h, task_load, cpu) > power_cost(h, task_load, p.cpu)
         ELSE cpu = p.cpu

\* for_each_cpu(i, &search_cpus) of select_packing_target(): the first CPU of
\* the lowest cost
RECURSIVE packing_loop(_, _, _, _)
packing_loop(h, p, mask, v) ==
    IF mask = {} THEN v
    ELSE With([i \in {cpumask_first(mask)} |->
         With([cost \in {power_cost(h, scale_load_to_cpu(h, p.load, i), i)} |->
             packing_loop(h, p, mask \ {i},
                 IF cost < v.min_cost /\ ~h.rq[i].high_irqload
                 THEN [target |-> i, min_cost |-> cost]
                 ELSE v)])])

select_packing_target(h, p, best_cpu) ==
    IF h.rq[best_cpu].cur_freq >= h.rq[best_cpu].mostly_idle_freq THEN best_cpu
    ELSE IF h.rq[best_cpu].max_freq <= h.rq[best_cpu].mostly_idle_freq THEN best_cpu
    ELSE packing_loop(h, p,
             (p.cpus_allowed \cap h.cpu_active_mask) \cap h.rq[best_cpu].freq_domain_cpumask,
             [target |-> best_cpu, min_cost |-> INT_MAX]).target

\* for_each_cpu_and(j, &search_cpus, &rq->freq_domain_cpumask) of
\* select_best_cpu(): the least loaded mostly idle CPU of the frequency domain
RECURSIVE fallback_idle_loop(_, _, _, _, _)
fallback_idle_loop(h, p, sync, mask, v) ==
    IF mask = {} THEN v
    ELSE With([j \in {cpumask_first(mask)} |->
         With([cpuload \in {cpu_load_sync(h, j, sync)} |->
             fallback_idle_loop(h, p, sync, mask \ {j},
                 IF /\ mostly_idle_cpu_sync(h, j, cpuload, sync)
                    /\ ~h.rq[j].high_irqload
                    /\ \/ cpuload < v.min_fallback_load
                       \/ cpuload = v.min_fallback_load /\ j = p.cpu
                 THEN [v EXCEPT !.min_fallback_load = cpuload, !.fallback_idle_cpu = j]
                 ELSE v)])])

\* the body of for_each_cpu(i, &search_cpus) of select_best_cpu() for a CPU
\* that is not skipped and where the task fits
best_cpu_fits(h, p, reason, sync, i, tload, v0) ==
    With([v \in {IF v0.prefer_idle = 0 - 1
                 THEN [v0 EXCEPT !.prefer_idle = h.rq[i].prefer_idle] ELSE v0} |->
    With([cpuload \in {cpu_load_sync(h, i, sync)} |->
    IF ~eligible_cpu(h, tload, cpuload, i, sync) THEN v
    ELSE
    With([cpu_cost \in {power_cost(h, tload, i)} |->
    IF power_delta_exceeded(cpu_cost, v.min_cost) /\ cpu_cost > v.min_cost THEN v
    ELSE
    With([v1 \in {IF power_delta_exceeded(cpu_cost, v.min_cost)
                  THEN [v EXCEPT !.min_cost = cpu_cost, !.min_load = ULLONG_MAX,
                                 !.min_cstate = INT_MAX, !.min_cstate_cpu = 0 - 1,
                                 !.best_cpu = 0 - 1,
                                 !.prefer_idle = IF v.prefer_idle_override THEN @
                                                 ELSE h.rq[i].prefer_idle]
                  ELSE v} |->
    IF \/ idle_cpu(h, i)
       \/ /\ sync /\ i = h.smp_processor_id
          /\ v1.prefer_idle # 0 /\ h.rq[i].nr_running = 1
    THEN With([cstate \in {h.rq[i].cstate} |->
         IF cstate > v1.min_cstate THEN v1
         ELSE IF cstate < v1.min_cstate
         THEN [v1 EXCEPT !.min_idle_cost = cpu_cost, !.min_cstate = cstate,
                         !.min_cstate_cpu = i]
         ELSE IF cpu_cost < v1.min_idle_cost \/ (i = p.cpu /\ cpu_cost = v1.min_idle_cost)
         THEN [v1 EXCEPT !.min_idle_cost = cpu_cost, !.min_cstate_cpu = i]
         ELSE v1])
    ELSE IF cpuload > v1.min_load THEN v1
    ELSE IF cpuload < v1.min_load
    THEN [v1 EXCEPT !.min_load = cpuload, !.min_busy_cost = cpu_cost, !.best_cpu = i]
    ELSE IF cpu_cost < v1.min_busy_cost \/ (i = p.cpu /\ cpu_cost = v1.min_busy_cost)
    THEN [v1 EXCEPT !.min_busy_cost = cpu_cost, !.best_cpu = i]
    ELSE v1])])])])

\* for_each_cpu(i, &search_cpus) of select_best_cpu(), from CPU i on
RECURSIVE best_cpu_loop(_, _, _, _, _, _)
best_cpu_next(h, p, reason, sync, i, v) ==
    IF {j \in v.search_cpus : j > i} = {} THEN v
    ELSE best_cpu_loop(h, p, reason, sync, cpumask_first({j \in v.search_cpus : j > i}), v)

best_cpu_loop(h, p, reason, sync, i, v) ==
    IF skip_freq_domain(h, p.cpu, i, reason)
    THEN best_cpu_next(h, p, reason, sync, i,
             [v EXCEPT !.search_cpus = @ \ h.rq[i].freq_domain_cpumask])
    ELSE With([tload \in {scale_load_to_cpu(h, p.load, i)} |->
         IF skip_cpu(h, p, i, tload, reason) THEN best_cpu_next(h, p, reason, sync, i, v)
         ELSE IF ~task_load_will_fit(h, p, tload, i)
         THEN best_cpu_next(h, p, reason, sync, i,
                  [fallback_idle_loop(h, p, sync,
                       v.search_cpus \cap h.rq[i].freq_domain_cpumask, v)
                   EXCEPT !.search_cpus = @ \ h.rq[i].freq_domain_cpumask])
         ELSE best_cpu_next(h, p, reason, sync, i,
                  best_cpu_fits(h, p, reason, sync, i, tload, v))])

\* done: of select_best_cpu() that takes the task's CPU whenever no CPU was
\* chosen
select_done_prev_cpu(p, v) ==
    IF v.best_cpu < 0 THEN p.cpu ELSE v.best_cpu

\* done: of select_best_cpu(), up to the packing pass
select_done(p, v) ==
    IF v.best_cpu < 0
    THEN IF v.fallback_idle_cpu < 0 THEN p.cpu ELSE v.fallback_idle_cpu
    ELSE v.best_cpu

\* a short cut of select_best_cpu() that is taken only for a waker's CPU that
\* runs the waker alone and has sched_prefer_idle set
sync_waker_cpu_if_idle(h, sync, search_cpus) ==
    /\ sync /\ h.smp_processor_id \in search_cpus
    /\ h.rq[h.smp_processor_id].nr_running = 1
    /\ h.rq[h.smp_processor_id].prefer_idle # 0

\* select_best_cpu(): if (sync) { cpuid = smp_processor_id();
\*                      if (cpumask_test_cpu(cpuid, &search_cpus)) ... goto done
sync_waker_cpu(h, sync, search_cpus) ==
    sync /\ h.smp_processor_id \in search_cpus

\* select_best_cpu(): the CPU returned, with the candidates at done:
select_best_cpu(h, p, reason, sync0) ==
    With([prefer_idle_override \in {reason # 0 \/ p.wake_to_idle} |->
    With([small_task \in {is_small_task(h, p) /\ ~p.wake_to_idle} |->
    With([sync \in {sync0 /\ ~p.wake_to_idle} |->
    With([search_cpus \in {p.cpus_allowed \cap h.cpu_active_mask} |->
    With([v0 \in {[search_cpus |-> search_cpus, best_cpu |-> 0 - 1,
                   fallback_idle_cpu |-> 0 - 1, min_cstate_cpu |-> 0 - 1,
                   min_cost |-> INT_MAX, min_idle_cost |-> INT_MAX,
                   min_busy_cost |-> INT_MAX, min_load |-> ULLONG_MAX,
                   min_fallback_load |-> ULLONG_MAX, min_cstate |-> INT_MAX,
                   prefer_idle |-> IF prefer_idle_override THEN 1 ELSE 0 - 1,
                   prefer_idle_override |-> prefer_idle_override]} |->
    With([v \in {IF small_task /\ ~h.sched_boost /\ ~sync
                 THEN [v0 EXCEPT !.best_cpu = best_small_task_cpu(h, p, sync),
                                 !.prefer_idle = 0]
                 ELSE IF sync_waker_cpu(h, sync, search_cpus)
                 THEN [v0 EXCEPT !.best_cpu = h.smp_processor_id]
                 ELSE With([v1 \in {IF search_cpus = {} THEN v0
                                    ELSE best_cpu_loop(h, p, reason, sync,
                                             cpumask_first(search_cpus), v0)} |->
                      IF /\ v1.min_cstate_cpu >= 0
                         /\ \/ v1.prefer_idle > 0
                            \/ v1.best_cpu < 0
                            \/ ~mostly_idle_cpu_sync(h, v1.best_cpu, v1.min_load, sync)
                      THEN [v1 EXCEPT !.best_cpu = v1.min_cstate_cpu]
                      ELSE v1])} |->
    With([best_cpu \in {select_done(p, v)} |->
        [ret |-> IF h.rq[best_cpu].mostly_idle_freq # 0 /\ ~prefer_idle_override
                 THEN select_packing_target(h, p, best_cpu)
                 ELSE best_cpu,
         best_cpu |-> best_cpu,
         fallback_idle_cpu |-> v.fallback_idle_cpu,
         scanned |-> ~(small_task /\ ~h.sched_boost /\ ~sync)
                     /\ ~sync_waker_cpu(h, sync, search_cpus)]])])])])])])])

\* what a run queue may hold: idle in a deep or a shallow C-state, mostly
\* idle, busy by its number of tasks, busy by its load, mostly idle under a
\* high interrupt load
HmpRqStates ==
    {[cumulative_runnable_avg |-> 0, curr_demand |-> 0, nr_running |-> 0,
      cstate |-> 1, high_irqload |-> FALSE],
     [cumulative_runnable_avg |-> 0, curr_demand |-> 0, nr_running |-> 0,
      cstate |-> 0, high_irqload |-> FALSE],
     [cumulative_runnable_avg |-> 5, curr_demand |-> 3, nr_running |-> 1,
      cstate |-> 0, high_irqload |-> FALSE],
     [cumulative_runnable_avg |-> 2, curr_demand |-> 1, nr_running |-> 5,
      cstate |-> 0, high_irqload |-> FALSE],
     [cumulative_runnable_avg |-> 30, curr_demand |-> 20, nr_running |-> 2,
      cstate |-> 0, high_irqload |-> FALSE],
     [cumulative_runnable_avg |-> 5, curr_demand |-> 3, nr_running |-> 1,
      cstate |-> 0, high_irqload |-> TRUE]}

\* the run queues of the two clusters; pack: the little cluster runs below its
\* mostly_idle_freq; prefer: sched_prefer_idle of every CPU
InitSelState(st, restrict, pack, boost, prefer) ==
    [rq |-> [c \in HmpCpus |->
                [capacity |-> IF c = 2 THEN 1024 ELSE 512,
                 load_scale_factor |-> IF c = 2 THEN 1024 ELSE 2048,
                 freq_domain_cpumask |-> IF c = 2 THEN {2} ELSE {0, 1},
                 cumulative_runnable_avg |-> st[c].cumulative_runnable_avg,
                 curr_demand |-> st[c].curr_demand,
                 nr_running |-> st[c].nr_running,
                 cstate |-> st[c].cstate,
                 high_irqload |-> st[c].high_irqload,
                 mostly_idle_load |-> 20,
                 mostly_idle_nr_run |-> 3,
                 prefer_idle |-> prefer,
                 reserved |-> FALSE,
                 cur_freq |-> 400,
                 max_freq |-> 1200,
                 mostly_idle_freq |-> IF pack /\ c # 2 THEN 800 ELSE 0]],
     max_capacity |-> 1024,
     max_load_scale_factor |-> 2048,
     hmp_capable |-> TRUE,
     cpu_active_mask |-> HmpCpus,
     sched_small_task |-> 10,
     sched_upmigrate |-> 80,
     sched_downmigrate |-> 60,
     sched_upmigrate_min_nice |-> 15,
     upmigrate_discouraged |-> FALSE,
     sched_spill_load |-> 100,
     sysctl_sched_spill_nr_run |-> 10,
     sysctl_sched_restrict_tasks_spread |-> restrict,
     sched_boost |-> boost,
     smp_processor_id |-> 1,
     called |-> FALSE,
     last |-> [p |-> [load |-> 0, cpu |-> 0, cpus_allowed |-> {}, nice |-> 0,
                      wake_to_idle |-> FALSE],
               reason |-> 0, sync |-> FALSE, ret |-> 0 - 1, best_cpu |-> 0 - 1,
               fallback_idle_cpu |-> 0 - 1, scanned |-> FALSE]]

\* the run queues of the three CPUs
HmpMachineStates ==
    {s \in [HmpCpus -> HmpRqStates] :
        /\ ~s[1].high_irqload
        /\ ~s[2].high_irqload
        /\ s[2].nr_running \in {0, 2}
        /\ s[2].cstate = 0}

InitSel ==
    /\ se = InitSe
    /\ cfs_rq = InitCfsRq({})
    /\ cfs_b = InitCfsB([q \in Queues |-> RUNTIME_INF], [q \in Queues |-> default_cfs_period])
    /\ rq = InitRq(4 * MSEC, 4 * MSEC)
    /\ task = [p \in Tasks |-> "away"]
    /\ now = 0
    /\ ops = 0
    /\ obs = InitObs
    /\ mig = NULL
    /\ hmp \in {InitSelState(st, restrict, pack, boost, 1) :
                   st \in HmpMachineStates,
                   restrict \in BOOLEAN, pack \in BOOLEAN, boost \in BOOLEAN}
               \cup {InitSelState(st, FALSE, FALSE, FALSE, 0) : st \in HmpMachineStates}
    /\ dist = NULL
    /\ avg = NULL
    /\ tune = NULL
    /\ imb = NULL
    /\ offline = NULL
    /\ det = NULL
    /\ lb = NULL
    /\ ab = NULL
    /\ dl = NULL
    /\ lk = NULL
    /\ ret = NULL
    /\ pt = NULL
    /\ tc = NULL
    /\ hy = NULL
    /\ tm = NULL
    /\ af = NULL
    /\ cn = NULL

\* the tasks select_best_cpu() is called for
HmpTasks ==
    {[load |-> load, cpu |-> cpu, cpus_allowed |-> cpus_allowed, nice |-> 0,
      wake_to_idle |-> wake_to_idle] :
        load \in HmpLoads, cpu \in HmpCpus, cpus_allowed \in SUBSET HmpCpus \ {{}},
        wake_to_idle \in BOOLEAN}

\* a call of select_best_cpu() for the task p
SelectCpu(p, reason, sync) ==
    /\ ~hmp.called
    /\ \E r \in {select_best_cpu(hmp, p, reason, sync)} :
           hmp' = [hmp EXCEPT !.called = TRUE,
                              !.last = [p |-> p, reason |-> reason, sync |-> sync,
                                        ret |-> r.ret, best_cpu |-> r.best_cpu,
                                        fallback_idle_cpu |-> r.fallback_idle_cpu,
                                        scanned |-> r.scanned]]
    /\ UNCHANGED <<se, cfs_rq, cfs_b, rq, task, now, ops, obs, mig, dist, avg, tune, imb, offline, det, lb, ab, dl, lk, ret, pt, tc, hy, tm, af, cn>>

NextSel ==
    \E p \in HmpTasks, reason \in HmpReasons, sync \in BOOLEAN : SelectCpu(p, reason, sync)

SpecSel == InitSel /\ [][NextSel]_vars

\* ==================================================== the imbalance, SpecImb
\* calculate_imbalance() on a domain of two groups of equal capacity, the
\* local group and the busiest one.  d holds the statistics of struct
\* sd_lb_stats that it reads and env->imbalance; dst_load_per_task is
\* cpu_avg_load_per_task(env->dst_cpu).
SCHED_CAPACITY_SCALE == 2 ^ SCHED_CAPACITY_SHIFT
SCHED_LOAD_SCALE == NICE_0_LOAD
group_other == 0
group_imbalanced == 2
group_overloaded == 3

ImbBusiestLoads == {60, 100, 1024, 2048}
ImbLocalLoads == {0, 40}
ImbCapacities == {512, 1024}
ImbMaxTasks == 4

\* update_sg_lb_stats(): the statistics of one group
sg_lb_stats(group_load, sum_nr_running, group_capacity, group_type) ==
    [group_load |-> group_load,
     sum_weighted_load |-> group_load,
     sum_nr_running |-> sum_nr_running,
     group_capacity |-> group_capacity,
     avg_load |-> (group_load * SCHED_CAPACITY_SCALE) \div group_capacity,
     load_per_task |-> IF sum_nr_running # 0 THEN group_load \div sum_nr_running ELSE 0,
     group_type |-> group_type]

\* fix_small_imbalance() that never forces a task to be moved
fix_small_imbalance_never(d0) == d0

fix_small_imbalance(d0) ==
    With([d \in {IF d0.local.sum_nr_running = 0
                 THEN [d0 EXCEPT !.local.load_per_task = d0.dst_load_per_task]
                 ELSE d0} |->
    With([imbn \in {IF /\ d0.local.sum_nr_running # 0
                       /\ d0.busiest.load_per_task > d0.local.load_per_task
                    THEN 1 ELSE 2} |->
    With([scaled_busy_load_per_task \in
              {(d.busiest.load_per_task * SCHED_CAPACITY_SCALE) \div d.busiest.group_capacity} |->
    IF d.busiest.avg_load + scaled_busy_load_per_task >=
           d.local.avg_load + scaled_busy_load_per_task * imbn
    THEN [d EXCEPT !.imbalance = d.busiest.load_per_task]
    ELSE
    With([capa_now \in
              {(d.busiest.group_capacity * Min(d.busiest.load_per_task, d.busiest.avg_load)
                + d.local.group_capacity * Min(d.local.load_per_task, d.local.avg_load))
               \div SCHED_CAPACITY_SCALE} |->
    With([tmp \in {IF d.busiest.avg_load * d.busiest.group_capacity <
                         d.busiest.load_per_task * SCHED_CAPACITY_SCALE
                   THEN (d.busiest.avg_load * d.busiest.group_capacity)
                            \div d.local.group_capacity
                   ELSE (d.busiest.load_per_task * SCHED_CAPACITY_SCALE)
                            \div d.local.group_capacity} |->
    With([capa_move \in
              {((IF d.busiest.avg_load > scaled_busy_load_per_task
                 THEN d.busiest.group_capacity *
                          Min(d.busiest.load_per_task,
                              d.busiest.avg_load - scaled_busy_load_per_task)
                 ELSE 0)
                + d.local.group_capacity * Min(d.local.load_per_task, d.local.avg_load + tmp))
               \div SCHED_CAPACITY_SCALE} |->
    IF capa_move > capa_now
    THEN [d EXCEPT !.imbalance = d.busiest.load_per_task]
    ELSE d])])])])])])

calculate_imbalance(d0) ==
    With([d \in {IF d0.busiest.group_type = group_imbalanced
                 THEN [d0 EXCEPT !.busiest.load_per_task = Min(@, d0.avg_load)]
                 ELSE d0} |->
    IF d.busiest.avg_load <= d.avg_load \/ d.local.avg_load >= d.avg_load
    THEN fix_small_imbalance([d EXCEPT !.imbalance = 0])
    ELSE
    With([load_above_capacity \in
              {IF /\ d.busiest.group_type = group_overloaded
                  /\ d.local.group_type = group_overloaded
                  /\ d.busiest.sum_nr_running * SCHED_LOAD_SCALE > d.busiest.group_capacity
               THEN d.busiest.sum_nr_running * SCHED_LOAD_SCALE - d.busiest.group_capacity
               ELSE ULLONG_MAX} |->
    With([max_pull \in {Min(d.busiest.avg_load - d.avg_load, load_above_capacity)} |->
    With([d1 \in {[d EXCEPT !.imbalance =
                      Min(max_pull * d.busiest.group_capacity,
                          (d.avg_load - d.local.avg_load) * d.local.group_capacity)
                      \div SCHED_CAPACITY_SCALE]} |->
    IF d1.imbalance < d1.busiest.load_per_task
    THEN fix_small_imbalance(d1)
    ELSE d1])])])])

\* the statistics find_busiest_group() hands to calculate_imbalance()
InitImbState(busiest, local) ==
    [busiest |-> busiest,
     local |-> local,
     avg_load |-> (SCHED_CAPACITY_SCALE * (busiest.group_load + local.group_load))
                      \div (busiest.group_capacity + local.group_capacity),
     dst_load_per_task |-> local.load_per_task,
     imbalance |-> 0,
     called |-> FALSE]

InitImb ==
    /\ se = InitSe
    /\ cfs_rq = InitCfsRq({})
    /\ cfs_b = InitCfsB([q \in Queues |-> RUNTIME_INF], [q \in Queues |-> default_cfs_period])
    /\ rq = InitRq(4 * MSEC, 4 * MSEC)
    /\ task = [p \in Tasks |-> "away"]
    /\ now = 0
    /\ ops = 0
    /\ obs = InitObs
    /\ mig = NULL
    /\ imb \in {InitImbState(sg_lb_stats(bl, bn, c, bt), sg_lb_stats(ll, ln, c, lt)) :
                   bl \in ImbBusiestLoads, bn \in 1 .. ImbMaxTasks,
                   bt \in {group_other, group_imbalanced, group_overloaded},
                   ll \in ImbLocalLoads, ln \in 0 .. 2,
                   lt \in {group_other, group_overloaded}, c \in ImbCapacities}
    /\ dist = NULL
    /\ avg = NULL
    /\ tune = NULL
    /\ hmp = NULL
    /\ offline = NULL
    /\ det = NULL
    /\ lb = NULL
    /\ ab = NULL
    /\ dl = NULL
    /\ lk = NULL
    /\ ret = NULL
    /\ pt = NULL
    /\ tc = NULL
    /\ hy = NULL
    /\ tm = NULL
    /\ af = NULL
    /\ cn = NULL

\* find_busiest_group() at force_balance
CalculateImbalance ==
    /\ ~imb.called
    /\ (imb.local.group_load = 0) = (imb.local.sum_nr_running = 0)
    /\ imb' = [calculate_imbalance(imb) EXCEPT !.called = TRUE]
    /\ UNCHANGED <<se, cfs_rq, cfs_b, rq, task, now, ops, obs, mig, dist, avg, tune, hmp, offline, det, lb, ab, dl, lk, ret, pt, tc, hy, tm, af, cn>>

NextImb == CalculateImbalance

SpecImb == InitImb /\ [][NextImb]_vars

\* ================================================== CPU offline, SpecOff
\* The one-CPU machine of Spec until rq_offline_fair() runs; offline.done
\* tells that it has, offline.throttled which queues it found throttled.

\* cfs_rq->on_list.  list_add_leaf_cfs_rq() is called where
\* check_enqueue_throttle() is, by enqueue_entity() for a queue that has just
\* got its first entity, and check_enqueue_throttle() sets throttle_uptodate
\* on its first call; neither flag is cleared while the group lives.
on_list(s, q) == s.cfs_rq[q].throttle_uptodate

\* rq->leaf_cfs_rq_list: list_add_leaf_cfs_rq() puts a queue before its parent
leaf_cfs_rq_list(s) ==
    SelectSeq(<<"g2", "g1", "root">>, LAMBDA q : on_list(s, q))

\* the loop of unthrottle_offline_cfs_rqs() that leaves throttled queues
\* throttled
RECURSIVE offline_loop_keep_throttled(_, _)
offline_loop_keep_throttled(s, list) ==
    IF list = <<>> THEN s
    ELSE IF ~s.cfs_rq[Head(list)].runtime_enabled
    THEN offline_loop_keep_throttled(s, Tail(list))
    ELSE offline_loop_keep_throttled(
             [s EXCEPT !.cfs_rq[Head(list)].runtime_remaining = 1,
                       !.cfs_rq[Head(list)].runtime_enabled = FALSE], Tail(list))

\* for_each_leaf_cfs_rq(rq, cfs_rq) of unthrottle_offline_cfs_rqs()
RECURSIVE offline_loop(_, _)
offline_loop(s, list) ==
    IF list = <<>> THEN s
    ELSE IF ~s.cfs_rq[Head(list)].runtime_enabled THEN offline_loop(s, Tail(list))
    ELSE With([s1 \in {[s EXCEPT !.cfs_rq[Head(list)].runtime_remaining = 1,
                                 !.cfs_rq[Head(list)].runtime_enabled = FALSE]} |->
         offline_loop(IF cfs_rq_throttled(s1, Head(list))
                      THEN unthrottle_cfs_rq(s1, Head(list))
                      ELSE s1,
                      Tail(list))])

unthrottle_offline_cfs_rqs(s) == offline_loop(s, leaf_cfs_rq_list(s))

InitOff ==
    /\ se = InitSe
    /\ cfs_rq = InitCfsRq(Groups)
    /\ cfs_b = InitCfsB(SpecQuota, SpecPeriod)
    /\ rq = InitRq(4 * MSEC, 4 * MSEC)
    /\ task = [p \in Tasks |-> "away"]
    /\ now = 0
    /\ ops = 0
    /\ obs = InitObs
    /\ mig = NULL
    /\ offline = [done |-> FALSE, throttled |-> {}]
    /\ dist = NULL
    /\ avg = NULL
    /\ tune = NULL
    /\ hmp = NULL
    /\ imb = NULL
    /\ det = NULL
    /\ lb = NULL
    /\ ab = NULL
    /\ dl = NULL
    /\ lk = NULL
    /\ ret = NULL
    /\ pt = NULL
    /\ tc = NULL
    /\ hy = NULL
    /\ tm = NULL
    /\ af = NULL
    /\ cn = NULL

\* rq_offline_fair()
Offline ==
    /\ ~offline.done
    /\ Commit(unthrottle_offline_cfs_rqs(St))
    /\ offline' = [done |-> TRUE, throttled |-> {q \in Queues : cfs_rq[q].throttled}]
    /\ UNCHANGED <<task, now, ops, mig, dist, avg, tune, hmp, imb, det, lb, ab, dl, lk, ret, pt, tc, hy, tm, af, cn>>

NextOff ==
    \/ ~offline.done /\ \E p \in Tasks : Wakeup(p)
    \/ ~offline.done /\ \E p \in Tasks : Arrive(p)
    \/ ~offline.done /\ \E p \in Tasks : Leave(p)
    \/ ~offline.done /\ Sleep
    \/ ~offline.done /\ Schedule
    \/ ~offline.done /\ Tick
    \/ ~offline.done /\ \E g \in Groups : PeriodTimer(g)
    \/ ~offline.done /\ Advance
    \/ Offline

SpecOff == InitOff /\ [][NextOff]_vars

\* ===================================================== detach_tasks, SpecDetach
\* One call of detach_tasks() on a source run queue of up to DetMaxTasks fair
\* tasks and at most one task of another class, for every env that
\* load_balance() may hand it.  CPU 0 is the source,
\* CPU 1 the destination, CPU 2 another CPU of the destination's group.  The
\* record det holds the env and the source run queue: flags, imbalance, loop,
\* the cfs_tasks list, nr_running, curr; det.tasks is env->tasks, det.log the
\* circumstances of every detach.
LBF_ALL_PINNED == 1
LBF_NEED_BREAK == 2
LBF_DST_PINNED == 4
LBF_SOME_PINNED == 8
LBF_IGNORE_SMALL_TASKS == 16
LBF_IGNORE_BIG_TASKS == 256
LBF_IGNORE_PREFERRED_CLUSTER_TASKS == 512
sched_nr_migrate_break == 32
LB_MIN == FALSE
CPU_IDLE == "CPU_IDLE"
CPU_NOT_IDLE == "CPU_NOT_IDLE"
CPU_NEWLY_IDLE == "CPU_NEWLY_IDLE"

DetCpus == {0, 1, 2}
DetImbalances == {10, 50}
DetMaxTasks == 2

\* what a task of the source queue may be: small, middling, big, cache hot,
\* not allowed on the destination, outside its preferred cluster, in a
\* throttled group; load is task_load(p), h_load is task_h_load(p)
DetTaskKinds ==
    {[load |-> 4, h_load |-> 100, cpus_allowed |-> DetCpus, hot |-> FALSE,
      pref |-> TRUE, throttled |-> FALSE],
     [load |-> 45, h_load |-> 21, cpus_allowed |-> DetCpus, hot |-> FALSE,
      pref |-> TRUE, throttled |-> FALSE],
     [load |-> 90, h_load |-> 100, cpus_allowed |-> DetCpus, hot |-> FALSE,
      pref |-> TRUE, throttled |-> FALSE],
     [load |-> 90, h_load |-> 100, cpus_allowed |-> DetCpus, hot |-> TRUE,
      pref |-> TRUE, throttled |-> FALSE],
     [load |-> 45, h_load |-> 21, cpus_allowed |-> {0, 2}, hot |-> FALSE,
      pref |-> TRUE, throttled |-> FALSE],
     [load |-> 90, h_load |-> 40, cpus_allowed |-> DetCpus, hot |-> FALSE,
      pref |-> FALSE, throttled |-> FALSE],
     [load |-> 4, h_load |-> 10, cpus_allowed |-> DetCpus, hot |-> FALSE,
      pref |-> TRUE, throttled |-> TRUE]}

cpu_capacity(d, cpu) == d.rq[cpu].capacity

is_big_task(d, p) ==
    IF p.nice > d.sched_upmigrate_min_nice \/ d.upmigrate_discouraged THEN FALSE
    ELSE scale_load_to_cpu(d, p.load, p.cpu) > d.sched_upmigrate

\* rq->hmp_stats.nr_big_tasks of the source run queue, kept by
\* inc_nr_big_small_task() and dec_nr_big_small_task()
nr_big_tasks(d) ==
    Cardinality({i \in 1..Len(d.cfs_tasks) : is_big_task(d, d.cfs_tasks[i])})

\* can_migrate_task() that lets any task go to a CPU of a higher capacity
skip_small_for_big_never(d, p) == FALSE

\* can_migrate_task(): cpu_capacity(env->dst_cpu) > cpu_capacity(env->src_cpu)
\*                     && nr_big_tasks(env->src_rq) && !is_big_task(p)
skip_small_for_big(d, p) ==
    /\ cpu_capacity(d, d.dst_cpu) > cpu_capacity(d, d.src_cpu)
    /\ nr_big_tasks(d) # 0
    /\ ~is_big_task(d, p)

\* can_migrate_task(p, env): the answer and the env with its flags
can_migrate_task_env(d, p) ==
    IF p.throttled THEN [ret |-> FALSE, env |-> d]
    ELSE IF d.dst_cpu \notin p.cpus_allowed
    THEN With([d1 \in {[d EXCEPT !.flags = @ \cup {LBF_SOME_PINNED}]} |->
         With([alt \in {d1.dst_grpmask \cap d1.cpus \cap p.cpus_allowed} |->
         IF d1.dst_grpmask = {} \/ LBF_DST_PINNED \in d1.flags \/ alt = {}
         THEN [ret |-> FALSE, env |-> d1]
         ELSE [ret |-> FALSE,
               env |-> [d1 EXCEPT !.flags = @ \cup {LBF_DST_PINNED},
                                  !.new_dst_cpu = cpumask_first(alt)]]])])
    ELSE With([d1 \in {[d EXCEPT !.flags = @ \ {LBF_ALL_PINNED}]} |->
         With([twf \in {task_will_fit(d1, p, d1.dst_cpu)} |->
         With([group_cpus \in {(d1.busiest_grp_capacity + SCHED_CAPACITY_SCALE - 1)
                                   \div SCHED_CAPACITY_SCALE} |->
         [ret |-> /\ ~skip_small_for_big(d1, p)
                  /\ ~(LBF_IGNORE_SMALL_TASKS \in d1.flags /\ is_small_task(d1, p))
                  /\ ~(LBF_IGNORE_BIG_TASKS \in d1.flags /\ ~twf)
                  /\ ~(LBF_IGNORE_PREFERRED_CLUSTER_TASKS \in d1.flags /\ ~p.pref)
                  /\ ~(~twf /\ d1.busiest_nr_running <= group_cpus)
                  /\ p.id # d1.curr
                  /\ \/ d1.idle # CPU_NOT_IDLE
                     \/ ~p.hot
                     \/ d1.nr_balance_failed > d1.cache_nice_tries,
          env |-> d1]])])])

\* next: of detach_tasks(), list_move_tail(&p->se.group_node, tasks)
detach_next(d) == [d EXCEPT !.cfs_tasks = Append(Tail(@), Head(@))]

\* detach_task(p, env); list_add(&p->se.group_node, &env->tasks);
\* detached++; env->imbalance -= load
detach_one(d, p, load) ==
    [d EXCEPT !.cfs_tasks = Tail(@),
              !.nr_running = @ - 1,
              !.tasks = <<p.id>> \o @,
              !.imbalance = @ - load,
              !.log = Append(@, [p |-> p, load |-> load, imbalance |-> d.imbalance,
                                 nr_running |-> d.nr_running, flags |-> d.flags,
                                 redo |-> d.redo, nr_big_tasks |-> nr_big_tasks(d),
                                 cfs_tasks |-> Tail(d.cfs_tasks)])]

\* the test of twice the imbalance of detach_tasks() without the case of
\* LBF_IGNORE_BIG_TASKS
skip_above_imbalance_crowded_only(d, load) ==
    /\ d.nr_running > 2
    /\ load \div 2 > d.imbalance

\* detach_tasks(): ((nr_running > 2) || (flags & LBF_IGNORE_BIG_TASKS)) &&
\*                 ((load / 2) > env->imbalance)
skip_above_imbalance(d, load) ==
    /\ d.nr_running > 2 \/ LBF_IGNORE_BIG_TASKS \in d.flags
    /\ load \div 2 > d.imbalance

\* while (!list_empty(tasks)) of detach_tasks()
RECURSIVE detach_loop(_)
detach_loop(d) ==
    IF d.cfs_tasks = <<>> THEN d
    ELSE IF d.idle # CPU_NOT_IDLE /\ d.nr_running <= 1 THEN d
    ELSE
    With([d1 \in {[d EXCEPT !.loop = @ + 1]} |->
    IF d1.loop > d1.loop_max THEN d1
    ELSE IF d1.loop > d1.loop_break
    THEN [d1 EXCEPT !.loop_break = @ + sched_nr_migrate_break,
                    !.flags = @ \cup {LBF_NEED_BREAK}]
    ELSE
    With([c \in {can_migrate_task_env(d1, Head(d1.cfs_tasks))} |->
    IF ~c.ret THEN detach_loop(detach_next(c.env))
    ELSE
    With([load \in {Max(Head(d1.cfs_tasks).h_load, 1)} |->
    IF LB_MIN /\ load < 16 /\ c.env.nr_balance_failed = 0
    THEN detach_loop(detach_next(c.env))
    ELSE IF skip_above_imbalance(c.env, load)
    THEN detach_loop(detach_next(c.env))
    ELSE
    With([d2 \in {detach_one(c.env, Head(d1.cfs_tasks), load)} |->
    IF d2.CONFIG_PREEMPT /\ d2.idle = CPU_NEWLY_IDLE THEN d2
    ELSE IF d2.imbalance <= 0 THEN d2
    ELSE detach_loop(d2)])])])])

\* detach_tasks(env); the number it returns is Len(tasks)
detach_tasks(d) ==
    IF d.imbalance <= 0 THEN d
    ELSE
    With([d1 \in {detach_loop(
                     [d EXCEPT !.flags =
                         @ \cup {LBF_IGNORE_PREFERRED_CLUSTER_TASKS}
                           \cup (IF cpu_capacity(d, d.dst_cpu) > cpu_capacity(d, d.src_cpu)
                                 THEN {LBF_IGNORE_SMALL_TASKS}
                                 ELSE IF /\ cpu_capacity(d, d.dst_cpu)
                                              < cpu_capacity(d, d.src_cpu)
                                         /\ ~d.sched_boost
                                 THEN {LBF_IGNORE_BIG_TASKS}
                                 ELSE {})])} |->
    IF /\ d1.flags \cap {LBF_IGNORE_SMALL_TASKS, LBF_IGNORE_BIG_TASKS,
                         LBF_IGNORE_PREFERRED_CLUSTER_TASKS} # {}
       /\ d1.tasks = <<>>
    THEN detach_loop([d1 EXCEPT !.flags = @ \ {LBF_IGNORE_SMALL_TASKS, LBF_IGNORE_BIG_TASKS,
                                               LBF_IGNORE_PREFERRED_CLUSTER_TASKS},
                                !.loop = d.loop,
                                !.redo = TRUE])
    ELSE d1])

\* the env of load_balance() at its call of detach_tasks(), and the source
\* run queue; other: the runnable tasks of other classes, src_big: the source
\* CPU is of the high capacity, dst_big: the destination CPU is
InitDetachState(list, other, curr, src_big, dst_big, boost, idle, preempt, failed, imbalance, nr) ==
    [rq |-> [c \in DetCpus |->
                [capacity |-> IF (c = 0 /\ src_big) \/ (c # 0 /\ dst_big) THEN 1024 ELSE 512,
                 load_scale_factor |->
                     IF (c = 0 /\ src_big) \/ (c # 0 /\ dst_big) THEN 1024 ELSE 2048]],
     max_capacity |-> 1024,
     max_load_scale_factor |-> 2048,
     sched_small_task |-> 10,
     sched_upmigrate |-> 80,
     sched_downmigrate |-> 60,
     sched_upmigrate_min_nice |-> 15,
     upmigrate_discouraged |-> FALSE,
     sched_boost |-> boost,
     CONFIG_PREEMPT |-> preempt,
     src_cpu |-> 0,
     dst_cpu |-> 1,
     dst_grpmask |-> IF idle = CPU_NEWLY_IDLE THEN {} ELSE {1, 2},
     cpus |-> DetCpus,
     new_dst_cpu |-> 0 - 1,
     idle |-> idle,
     imbalance |-> imbalance,
     busiest_grp_capacity |-> 2 * (IF src_big THEN 1024 ELSE 512),
     busiest_nr_running |-> nr,
     flags |-> {LBF_ALL_PINNED},
     loop |-> 0,
     loop_break |-> sched_nr_migrate_break,
     loop_max |-> Len(list) + other,
     nr_balance_failed |-> failed,
     cache_nice_tries |-> 1,
     cfs_tasks |-> [i \in 1..Len(list) |->
                       [id |-> <<"t1", "t2", "t3", "t4">>[i], cpu |-> 0, nice |-> 0,
                        load |-> list[i].load, h_load |-> list[i].h_load,
                        cpus_allowed |-> list[i].cpus_allowed, hot |-> list[i].hot,
                        pref |-> list[i].pref, throttled |-> list[i].throttled]],
     nr_running |-> Len(list) + other,
     curr |-> curr,
     tasks |-> <<>>,
     log |-> <<>>,
     redo |-> FALSE,
     called |-> FALSE]

\* the tasks of other classes on the source run queue, and rq->curr: the
\* idle task, the first fair task, or the task of the other class
DetRunning == {<<0, NULL>>, <<0, "t1">>, <<1, "other">>}

\* source CPU big, destination CPU big, sched_boost()
DetCapacities ==
    {<<FALSE, FALSE, FALSE>>, <<FALSE, TRUE, FALSE>>, <<FALSE, TRUE, TRUE>>,
     <<TRUE, FALSE, FALSE>>, <<TRUE, FALSE, TRUE>>}

\* env->idle, CONFIG_PREEMPT, sd->nr_balance_failed
DetIdle ==
    {<<CPU_NOT_IDLE, FALSE, 0>>, <<CPU_NOT_IDLE, FALSE, 3>>, <<CPU_IDLE, FALSE, 0>>,
     <<CPU_NEWLY_IDLE, FALSE, 0>>, <<CPU_NEWLY_IDLE, TRUE, 0>>}

InitDetach ==
    /\ se = InitSe
    /\ cfs_rq = InitCfsRq({})
    /\ cfs_b = InitCfsB([q \in Queues |-> RUNTIME_INF], [q \in Queues |-> default_cfs_period])
    /\ rq = InitRq(4 * MSEC, 4 * MSEC)
    /\ task = [p \in Tasks |-> "away"]
    /\ now = 0
    /\ ops = 0
    /\ obs = InitObs
    /\ mig = NULL
    /\ det \in {InitDetachState(list, run[1], run[2], caps[1], caps[2], caps[3],
                                idle[1], idle[2], idle[3], imbalance, nr) :
                   list \in UNION {[1..n -> DetTaskKinds] : n \in 1..DetMaxTasks},
                   run \in DetRunning, caps \in DetCapacities, idle \in DetIdle,
                   imbalance \in DetImbalances, nr \in {2, 3}}
    /\ dist = NULL
    /\ avg = NULL
    /\ tune = NULL
    /\ hmp = NULL
    /\ imb = NULL
    /\ offline = NULL
    /\ lb = NULL
    /\ ab = NULL
    /\ dl = NULL
    /\ lk = NULL
    /\ ret = NULL
    /\ pt = NULL
    /\ tc = NULL
    /\ hy = NULL
    /\ tm = NULL
    /\ af = NULL
    /\ cn = NULL

\* load_balance() calls detach_tasks(&env) under the lock of the source
DetachTasks ==
    /\ ~det.called
    /\ det' = [detach_tasks(det) EXCEPT !.called = TRUE]
    /\ UNCHANGED <<se, cfs_rq, cfs_b, rq, task, now, ops, obs, mig, dist, avg, tune, hmp, imb, offline, lb, ab, dl, lk, ret, pt, tc, hy, tm, af, cn>>

NextDetach == DetachTasks

SpecDetach == InitDetach /\ [][NextDetach]_vars

\* ============================================ load_balance on a domain, SpecLb
\* One sched_domain and the run queue its balancing finds busiest: the record
\* lb holds sd->min_interval, max_interval, balance_interval,
\* nr_balance_failed and cache_nice_tries, busiest->active_balance, and what
\* the last call of load_balance() did.  What find_busiest_group(),
\* find_busiest_queue() and detach_tasks() come to is an input of the call.
NEED_ACTIVE_BALANCE_THRESHOLD == 10
MAX_PINNED_INTERVAL == 16
MaxLbFailed == 14

\* sd->min_interval and sd->max_interval of the domain
LbIntervals == {<<1, 2>>, <<3, 6>>, <<4, 8>>}

\* how a call of load_balance() ends before its accounting: out_balanced
\* (nothing to balance; all_pinned: after a redo that had found the tasks of
\* another queue pinned), tasks moved, no_move, out_all_pinned; for no_move,
\* the flags of the env and what need_active_balance() reads
LbOutcomes ==
    {[path |-> "out_balanced", all_pinned |-> b, hmp_active |-> FALSE, asym_packing |-> FALSE,
      reduced_capacity |-> FALSE, curr_allowed |-> TRUE] : b \in BOOLEAN}
    \cup {[path |-> p, all_pinned |-> p = "out_all_pinned", hmp_active |-> FALSE,
           asym_packing |-> FALSE, reduced_capacity |-> FALSE, curr_allowed |-> TRUE] :
             p \in {"moved", "out_all_pinned"}}
    \cup {[path |-> "no_move", all_pinned |-> FALSE, hmp_active |-> h[1], asym_packing |-> h[2],
           reduced_capacity |-> h[3], curr_allowed |-> c] :
             h \in {<<FALSE, FALSE, FALSE>>, <<TRUE, FALSE, FALSE>>, <<FALSE, TRUE, FALSE>>,
                    <<FALSE, FALSE, TRUE>>},
             c \in BOOLEAN}

\* need_active_balance() that does not look at the failure counter
need_active_balance_no_counter(l, idle, o) ==
    \/ o.hmp_active
    \/ idle = CPU_NEWLY_IDLE /\ o.asym_packing
    \/ idle # CPU_NOT_IDLE /\ o.reduced_capacity

need_active_balance(l, idle, o) ==
    \/ o.hmp_active
    \/ idle = CPU_NEWLY_IDLE /\ o.asym_packing
    \/ idle # CPU_NOT_IDLE /\ o.reduced_capacity
    \/ l.nr_balance_failed > l.cache_nice_tries + NEED_ACTIVE_BALANCE_THRESHOLD

\* out_one_pinned: that doubles the interval whatever it is
tune_up_unbounded(l, idle, all_pinned) ==
    IF idle = CPU_NEWLY_IDLE THEN l
    ELSE [l EXCEPT !.balance_interval = @ * 2,
                   !.pinned = @ \/ l.balance_interval >= l.max_interval]

\* out_one_pinned: of load_balance(), tune up the balancing interval
tune_up(l, idle, all_pinned) ==
    IF idle = CPU_NEWLY_IDLE THEN l
    ELSE IF \/ all_pinned /\ l.balance_interval < MAX_PINNED_INTERVAL
            \/ l.balance_interval < l.max_interval
    THEN [l EXCEPT !.balance_interval = @ * 2,
                   !.pinned = @ \/ l.balance_interval >= l.max_interval]
    ELSE l

\* the end of no_move: that backs off whether or not active balancing began
active_backoff_always(l, active_balance) ==
    IF l.balance_interval < l.max_interval
    THEN [l EXCEPT !.balance_interval = @ * 2]
    ELSE l

\* the end of no_move: of load_balance(): if (likely(!active_balance)) reset
\* the balancing interval, else start to back off
active_backoff(l, active_balance) ==
    IF ~active_balance
    THEN [l EXCEPT !.balance_interval = l.min_interval, !.pinned = FALSE]
    ELSE IF l.balance_interval < l.max_interval
    THEN [l EXCEPT !.balance_interval = @ * 2]
    ELSE l

\* no_move: of load_balance() with ld_moved = 0
no_move(l, idle, o) ==
    With([l1 \in {IF idle # CPU_NEWLY_IDLE /\ ~o.hmp_active
                  THEN [l EXCEPT !.nr_balance_failed = @ + 1] ELSE l} |->
    IF need_active_balance(l1, idle, o)
    THEN IF ~o.curr_allowed
         THEN [tune_up(l1, idle, TRUE) EXCEPT !.last.end = "curr_pinned"]
         ELSE With([active_balance \in {~l1.active_balance} |->
              active_backoff(
                  [l1 EXCEPT !.active_balance = TRUE,
                             !.nr_balance_failed =
                                 l1.cache_nice_tries + NEED_ACTIVE_BALANCE_THRESHOLD - 1,
                             !.last.end = IF active_balance THEN "kicked" ELSE "pending",
                             !.last.needed = TRUE],
                  active_balance)])
    ELSE active_backoff([l1 EXCEPT !.last.end = "reset"], FALSE)])

\* load_balance(this_cpu, this_rq, sd, idle, continue_balancing), from the
\* outcome o of its search and of detach_tasks() on
load_balance_sd(l0, idle, o) ==
    With([l \in {[l0 EXCEPT !.last = [idle |-> idle, path |-> o.path, o |-> o,
                                      balance_interval |-> l0.balance_interval,
                                      nr_balance_failed |-> l0.nr_balance_failed,
                                      active_balance |-> l0.active_balance,
                                      end |-> o.path, needed |-> FALSE]]} |->
    CASE o.path = "moved" ->
             active_backoff([l EXCEPT !.nr_balance_failed = 0], FALSE)
      [] o.path = "no_move" -> no_move(l, idle, o)
      [] o.path = "out_all_pinned" ->
             tune_up([l EXCEPT !.nr_balance_failed = 0], idle, TRUE)
      [] OTHER ->
             tune_up([l EXCEPT !.nr_balance_failed = 0], idle, o.all_pinned)])

InitLbState(iv, tries) ==
    [min_interval |-> iv[1],
     max_interval |-> iv[2],
     balance_interval |-> iv[1],
     cache_nice_tries |-> tries,
     nr_balance_failed |-> 0,
     active_balance |-> FALSE,
     pinned |-> FALSE,
     last |-> [idle |-> CPU_IDLE, path |-> "none", o |-> NULL, balance_interval |-> 0,
               nr_balance_failed |-> 0, active_balance |-> FALSE, end |-> "none",
               needed |-> FALSE]]

InitLb ==
    /\ se = InitSe
    /\ cfs_rq = InitCfsRq({})
    /\ cfs_b = InitCfsB([q \in Queues |-> RUNTIME_INF], [q \in Queues |-> default_cfs_period])
    /\ rq = InitRq(4 * MSEC, 4 * MSEC)
    /\ task = [p \in Tasks |-> "away"]
    /\ now = 0
    /\ ops = 0
    /\ obs = InitObs
    /\ mig = NULL
    /\ lb \in {InitLbState(iv, tries) : iv \in LbIntervals, tries \in {0, 1}}
    /\ dist = NULL
    /\ avg = NULL
    /\ tune = NULL
    /\ hmp = NULL
    /\ imb = NULL
    /\ offline = NULL
    /\ det = NULL
    /\ ab = NULL
    /\ dl = NULL
    /\ lk = NULL
    /\ ret = NULL
    /\ pt = NULL
    /\ tc = NULL
    /\ hy = NULL
    /\ tm = NULL
    /\ af = NULL
    /\ cn = NULL

\* rebalance_domains() or idle_balance() calls load_balance() on the domain
LoadBalance(idle, o) ==
    /\ lb.nr_balance_failed < MaxLbFailed
    /\ lb' = load_balance_sd(lb, idle, o)
    /\ UNCHANGED <<se, cfs_rq, cfs_b, rq, task, now, ops, obs, mig, dist, avg, tune, hmp, imb, offline, det, ab, dl, lk, ret, pt, tc, hy, tm, af, cn>>

\* active_load_balance_cpu_stop() on the busiest CPU: out_unlock
ActiveBalanceDone ==
    /\ lb.active_balance
    /\ lb' = [lb EXCEPT !.active_balance = FALSE, !.last.path = "none", !.last.end = "none"]
    /\ UNCHANGED <<se, cfs_rq, cfs_b, rq, task, now, ops, obs, mig, dist, avg, tune, hmp, imb, offline, det, ab, dl, lk, ret, pt, tc, hy, tm, af, cn>>

\* find_new_hmp_ilb(): reset_balance_interval() of the CPU it kicks
ResetBalanceInterval ==
    /\ lb.balance_interval # 0
    /\ lb' = [lb EXCEPT !.balance_interval = 0, !.pinned = FALSE,
                        !.last.path = "none", !.last.end = "none"]
    /\ UNCHANGED <<se, cfs_rq, cfs_b, rq, task, now, ops, obs, mig, dist, avg, tune, hmp, imb, offline, det, ab, dl, lk, ret, pt, tc, hy, tm, af, cn>>

NextLb ==
    \/ \E idle \in {CPU_IDLE, CPU_NOT_IDLE, CPU_NEWLY_IDLE}, o \in LbOutcomes :
           LoadBalance(idle, o)
    \/ ActiveBalanceDone
    \/ ResetBalanceInterval

SpecLb == InitLb /\ [][NextLb]_vars

\* ================================== active balance requests on one rq, SpecAb
\* The run queue of CPU 0 with its lock, active_balance, push_cpu, push_task
\* and active_balance_work; load_balance() running on CPU 1 and on CPU 2
\* with CPU 0 as busiest, check_for_migration() from the tick of CPU 0, and
\* the stopper of CPU 0.  A caller holds rq->lock from AbLock to AbUnlock.
MaxAbWork == 2

AbBalancers == {"lb1", "lb2"}
AbCallers == AbBalancers \cup {"tick"}
this_cpu(c) == IF c = "lb1" THEN 1 ELSE 2

\* the part of kick_active_balance() under rq->lock, without its test of
\* rq->active_balance
kick_active_balance_untested(a, c, p, new_cpu) ==
    [a EXCEPT !.active_balance = TRUE,
              !.push_cpu = new_cpu,
              !.push_task = p,
              !.setter = IF a.active_balance THEN @ ELSE c,
              !.rc[c] = TRUE]

\* the part of kick_active_balance(rq, p, new_cpu) under rq->lock; rc is
\* what it returns to caller c
kick_active_balance(a, c, p, new_cpu) ==
    IF ~a.active_balance
    THEN [a EXCEPT !.active_balance = TRUE,
                   !.push_cpu = new_cpu,
                   !.push_task = p,
                   !.setter = c,
                   !.rc[c] = TRUE]
    ELSE a

\* load_balance() under busiest->lock once need_active_balance() said yes;
\* rc is its local active_balance
load_balance_kick(a, c, curr_allowed) ==
    IF ~curr_allowed THEN a
    ELSE IF ~a.active_balance
    THEN [a EXCEPT !.active_balance = TRUE,
                   !.push_cpu = this_cpu(c),
                   !.reserved = @ \cup {this_cpu(c)},
                   !.setter = c,
                   !.rc[c] = TRUE]
    ELSE a

InitAb ==
    /\ se = InitSe
    /\ cfs_rq = InitCfsRq({})
    /\ cfs_b = InitCfsB([q \in Queues |-> RUNTIME_INF], [q \in Queues |-> default_cfs_period])
    /\ rq = InitRq(4 * MSEC, 4 * MSEC)
    /\ task = [p \in Tasks |-> "away"]
    /\ now = 0
    /\ ops = 0
    /\ obs = InitObs
    /\ mig = NULL
    /\ ab = [lock |-> "none",
             active_balance |-> FALSE,
             push_cpu |-> 0,
             push_task |-> NULL,
             reserved |-> {},
             work |-> 0,
             pc |-> [c \in AbCallers \cup {"stopper"} |-> "idle"],
             rc |-> [c \in AbCallers |-> FALSE],
             setter |-> "none",
             dispatch |-> [by |-> "none", setter |-> "none", work |-> 0],
             last |-> [outcome |-> "none", moved |-> FALSE]]
    /\ dist = NULL
    /\ avg = NULL
    /\ tune = NULL
    /\ hmp = NULL
    /\ imb = NULL
    /\ offline = NULL
    /\ det = NULL
    /\ lb = NULL
    /\ dl = NULL
    /\ lk = NULL
    /\ ret = NULL
    /\ pt = NULL
    /\ tc = NULL
    /\ hy = NULL
    /\ tm = NULL
    /\ af = NULL
    /\ cn = NULL

\* raw_spin_lock_irqsave(&busiest->lock) of load_balance(), or of
\* kick_active_balance() called by check_for_migration()
AbLock(c) ==
    /\ ab.pc[c] = "idle"
    /\ ab.lock = "none"
    /\ ab' = [ab EXCEPT !.lock = c, !.pc[c] = "locked"]
    /\ UNCHANGED <<se, cfs_rq, cfs_b, rq, task, now, ops, obs, mig, dist, avg, tune, hmp, imb, offline, det, lb, dl, lk, ret, pt, tc, hy, tm, af, cn>>

\* load_balance() between the lock and the unlock of busiest->lock
LbKick(c, curr_allowed) ==
    /\ c \in AbBalancers
    /\ ab.pc[c] = "locked"
    /\ ab' = [load_balance_kick(ab, c, curr_allowed) EXCEPT !.pc[c] = "kicked"]
    /\ UNCHANGED <<se, cfs_rq, cfs_b, rq, task, now, ops, obs, mig, dist, avg, tune, hmp, imb, offline, det, lb, dl, lk, ret, pt, tc, hy, tm, af, cn>>

\* kick_active_balance() between the lock and the unlock of rq->lock
TickKick(p, new_cpu) ==
    /\ ab.pc["tick"] = "locked"
    /\ ab' = [kick_active_balance(ab, "tick", p, new_cpu) EXCEPT !.pc["tick"] = "kicked"]
    /\ UNCHANGED <<se, cfs_rq, cfs_b, rq, task, now, ops, obs, mig, dist, avg, tune, hmp, imb, offline, det, lb, dl, lk, ret, pt, tc, hy, tm, af, cn>>

\* raw_spin_unlock_irqrestore(&rq->lock) of either
AbUnlock(c) ==
    /\ ab.pc[c] = "kicked"
    /\ ab' = [ab EXCEPT !.lock = "none", !.pc[c] = "unlocked"]
    /\ UNCHANGED <<se, cfs_rq, cfs_b, rq, task, now, ops, obs, mig, dist, avg, tune, hmp, imb, offline, det, lb, dl, lk, ret, pt, tc, hy, tm, af, cn>>

\* if (active_balance) stop_one_cpu_nowait(cpu, active_load_balance_cpu_stop,
\* rq, &rq->active_balance_work), and the return of the caller
AbDispatch(c) ==
    /\ ab.pc[c] = "unlocked"
    /\ ab.rc[c] => ab.work < MaxAbWork
    /\ ab' = IF ab.rc[c]
             THEN [ab EXCEPT !.work = @ + 1,
                             !.reserved = IF c = "tick" THEN @ \cup {ab.push_cpu} ELSE @,
                             !.dispatch = [by |-> c, setter |-> ab.setter, work |-> ab.work + 1],
                             !.rc[c] = FALSE,
                             !.pc[c] = "idle"]
             ELSE [ab EXCEPT !.pc[c] = "idle"]
    /\ UNCHANGED <<se, cfs_rq, cfs_b, rq, task, now, ops, obs, mig, dist, avg, tune, hmp, imb, offline, det, lb, dl, lk, ret, pt, tc, hy, tm, af, cn>>

\* the ways through active_load_balance_cpu_stop(): the CPU went down
\* ("gone"), one task or none on the run queue ("alone"), the push task
\* detached ("pushed") or no longer runnable here ("stale"), no domain that
\* spans both CPUs ("no_domain"), detach_one_task() found a task
\* ("detached") or none ("failed")
AbAllOutcomes == {"gone", "alone", "pushed", "stale", "no_domain", "detached", "failed"}

AbOutcomes(a) ==
    {"gone", "alone"} \cup
    (IF a.push_task # NULL THEN {"pushed", "stale"} ELSE {"no_domain", "detached", "failed"})

\* active_load_balance_cpu_stop() that returns at once when there is
\* nothing to do
active_balance_stop_early_return(a, outcome) ==
    IF outcome \in {"gone", "alone"}
    THEN [a EXCEPT !.last = [outcome |-> outcome, moved |-> FALSE]]
    ELSE [a EXCEPT !.active_balance = FALSE,
                   !.reserved = @ \ {a.push_cpu},
                   !.push_task = NULL,
                   !.last = [outcome |-> outcome, moved |-> outcome \in {"pushed", "detached"}]]

\* active_load_balance_cpu_stop() under busiest_rq->lock: every way ends in
\* out_unlock
active_balance_stop(a, outcome) ==
    [a EXCEPT !.active_balance = FALSE,
              !.reserved = @ \ {a.push_cpu},
              !.push_task = NULL,
              !.last = [outcome |-> outcome, moved |-> outcome \in {"pushed", "detached"}]]

\* the stopper takes the work and active_load_balance_cpu_stop() takes
\* busiest_rq->lock
StopperLock ==
    /\ ab.pc["stopper"] = "idle"
    /\ ab.work > 0
    /\ ab.lock = "none"
    /\ ab' = [ab EXCEPT !.work = @ - 1, !.lock = "stopper", !.pc["stopper"] = "locked"]
    /\ UNCHANGED <<se, cfs_rq, cfs_b, rq, task, now, ops, obs, mig, dist, avg, tune, hmp, imb, offline, det, lb, dl, lk, ret, pt, tc, hy, tm, af, cn>>

\* active_load_balance_cpu_stop() from the lock to the unlock: every path
\* ends in out_unlock
StopperRun(outcome) ==
    /\ ab.pc["stopper"] = "locked"
    /\ outcome \in AbOutcomes(ab)
    /\ ab' = [active_balance_stop(ab, outcome) EXCEPT !.lock = "none",
                                                      !.pc["stopper"] = "idle"]
    /\ UNCHANGED <<se, cfs_rq, cfs_b, rq, task, now, ops, obs, mig, dist, avg, tune, hmp, imb, offline, det, lb, dl, lk, ret, pt, tc, hy, tm, af, cn>>

NextAb ==
    \/ \E c \in AbCallers : AbLock(c)
    \/ \E c \in AbBalancers, curr_allowed \in BOOLEAN : LbKick(c, curr_allowed)
    \/ \E p \in {"t1", "t2"}, new_cpu \in {1, 2} : TickKick(p, new_cpu)
    \/ \E c \in AbCallers : AbUnlock(c)
    \/ \E c \in AbCallers : AbDispatch(c)
    \/ StopperLock
    \/ \E outcome \in AbAllOutcomes : StopperRun(outcome)

SpecAb == InitAb /\ [][NextAb]_vars

\* ============================ the distribution loop on several CPUs, SpecDl
\* One group with a queue on each of DlCpus.  dl holds, per CPU, the queue's
\* throttled, runtime_remaining and runtime_expires and the owner of
\* rq->lock; the list cfs_b->throttled_cfs_rq as next pointers (an entry
\* taken off by list_del_rcu() keeps its own); cfs_b->distribute_running;
\* and the timer that runs distribute_cfs_runtime(): its position, the entry
\* it is at and what remains to hand out.  Queues are throttled again and
\* un-throttled by unthrottle_offline_cfs_rqs() on their own CPUs meanwhile.
MaxDlThrottles == 3

DlCpus == {"cpu0", "cpu1"}
DlHead == "head"

\* the entries linked into the list, in order from n on
RECURSIVE DlListFrom(_, _)
DlListFrom(d, n) ==
    IF d.next[n] = DlHead THEN <<>> ELSE <<d.next[n]>> \o DlListFrom(d, d.next[n])

DlList(d) == DlListFrom(d, DlHead)

\* the node whose next pointer leads to the linked entry c
DlPrev(d, c) ==
    CHOOSE n \in {DlHead} \cup {x \in DlCpus : d.on_list[x]} : d.next[n] = c

DlLast(d) ==
    CHOOSE n \in {DlHead} \cup {x \in DlCpus : d.on_list[x]} : d.next[n] = DlHead

\* an entry that is not linked has a poisoned prev pointer in the source; it
\* is left alone here, and twice records that it was asked for
list_del_rcu(d, c) ==
    IF d.on_list[c]
    THEN [d EXCEPT !.next[DlPrev(d, c)] = d.next[c], !.on_list[c] = FALSE]
    ELSE d

list_add_rcu(d, c) ==
    [d EXCEPT !.next[c] = d.next[DlHead], !.next[DlHead] = c, !.on_list[c] = TRUE]

list_add_tail_rcu(d, c) ==
    [d EXCEPT !.next[c] = DlHead, !.next[DlLast(d)] = c, !.on_list[c] = TRUE]

\* unthrottle_cfs_rq() as the list and the flag see it; twice: it was called
\* for a queue that was not throttled
unthrottle_cfs_rq_cpu(d, c) ==
    list_del_rcu([d EXCEPT !.q[c].throttled = FALSE,
                           !.twice = @ \/ ~d.q[c].throttled,
                           !.unthrottles = @ + 1], c)

\* throttle_cfs_rq() as the list and the flag see it
throttle_cfs_rq_cpu(d, c) ==
    With([d1 \in {[d EXCEPT !.q[c].throttled = TRUE]} |->
    IF d1.distribute_running THEN list_add_rcu(d1, c) ELSE list_add_tail_rcu(d1, c)])

\* the body of the loop of distribute_cfs_runtime() without its test of
\* cfs_rq_throttled()
distribute_one_unchecked(d, c) ==
    With([runtime \in {Min(1 - d.q[c].runtime_remaining, d.timer.remaining)} |->
    With([d1 \in {[d EXCEPT !.timer.remaining = @ - runtime,
                            !.q[c].runtime_remaining = @ + runtime,
                            !.q[c].runtime_expires = d.timer.expires,
                            !.last = [cpu |-> c, throttled |-> d.q[c].throttled,
                                      runtime |-> runtime, unthrottled |-> FALSE,
                                      before |-> d.q[c]]]} |->
    IF d1.q[c].runtime_remaining > 0
    THEN [unthrottle_cfs_rq_cpu(d1, c) EXCEPT !.last.unthrottled = TRUE]
    ELSE d1])])

\* the body of the loop of distribute_cfs_runtime(), between
\* raw_spin_lock(&rq->lock) and next:
distribute_one(d, c) ==
    IF ~d.q[c].throttled
    THEN [d EXCEPT !.last = [cpu |-> c, throttled |-> FALSE, runtime |-> 0,
                             unthrottled |-> FALSE, before |-> d.q[c]]]
    ELSE With([runtime \in {Min(1 - d.q[c].runtime_remaining, d.timer.remaining)} |->
         With([d1 \in {[d EXCEPT !.timer.remaining = @ - runtime,
                                 !.q[c].runtime_remaining = @ + runtime,
                                 !.q[c].runtime_expires = d.timer.expires,
                                 !.last = [cpu |-> c, throttled |-> TRUE,
                                           runtime |-> runtime, unthrottled |-> FALSE,
                                           before |-> d.q[c]]]} |->
         IF d1.q[c].runtime_remaining > 0
         THEN [unthrottle_cfs_rq_cpu(d1, c) EXCEPT !.last.unthrottled = TRUE]
         ELSE d1])])

DlNoVisit ==
    [cpu |-> NULL, throttled |-> FALSE, runtime |-> 0, unthrottled |-> FALSE, before |-> NULL]

InitDl ==
    /\ se = InitSe
    /\ cfs_rq = InitCfsRq({})
    /\ cfs_b = InitCfsB([q \in Queues |-> RUNTIME_INF], [q \in Queues |-> default_cfs_period])
    /\ rq = InitRq(4 * MSEC, 4 * MSEC)
    /\ task = [p \in Tasks |-> "away"]
    /\ now = 0
    /\ ops = 0
    /\ obs = InitObs
    /\ mig = NULL
    /\ dl = [q |-> [c \in DlCpus |-> [throttled |-> FALSE, runtime_remaining |-> 1,
                                      runtime_expires |-> 0]],
             lock |-> [c \in DlCpus |-> "none"],
             next |-> [n \in DlCpus \cup {DlHead} |-> DlHead],
             on_list |-> [c \in DlCpus |-> FALSE],
             distribute_running |-> FALSE,
             timer |-> [pc |-> "idle", cur |-> DlHead, remaining |-> 0, expires |-> 0],
             throttles |-> 0,
             unthrottles |-> 0,
             twice |-> FALSE,
             raced |-> FALSE,
             last |-> DlNoVisit]
    /\ dist = NULL
    /\ avg = NULL
    /\ tune = NULL
    /\ hmp = NULL
    /\ imb = NULL
    /\ offline = NULL
    /\ det = NULL
    /\ lb = NULL
    /\ ab = NULL
    /\ lk = NULL
    /\ ret = NULL
    /\ pt = NULL
    /\ tc = NULL
    /\ hy = NULL
    /\ tm = NULL
    /\ af = NULL
    /\ cn = NULL

\* a queue runs out of runtime under its rq->lock: throttle_cfs_rq()
DlThrottle(c, left) ==
    /\ dl.lock[c] = "none"
    /\ ~dl.q[c].throttled
    /\ dl.throttles < MaxDlThrottles
    /\ dl' = throttle_cfs_rq_cpu(
                 [dl EXCEPT !.q[c].runtime_remaining = left, !.throttles = @ + 1,
                            !.last = DlNoVisit], c)
    /\ UNCHANGED <<se, cfs_rq, cfs_b, rq, task, now, ops, obs, mig, dist, avg, tune, hmp, imb, offline, det, lb, ab, lk, ret, pt, tc, hy, tm, af, cn>>

\* unthrottle_offline_cfs_rqs() under the rq->lock of a CPU going down
DlOffline(c) ==
    /\ dl.lock[c] = "none"
    /\ dl.q[c].throttled
    /\ dl' = unthrottle_cfs_rq_cpu(
                 [dl EXCEPT !.q[c].runtime_remaining = 1, !.last = DlNoVisit,
                            !.raced = dl.timer.pc = "lock" /\ dl.timer.cur = c], c)
    /\ UNCHANGED <<se, cfs_rq, cfs_b, rq, task, now, ops, obs, mig, dist, avg, tune, hmp, imb, offline, det, lb, ab, lk, ret, pt, tc, hy, tm, af, cn>>

\* a timer callback sets distribute_running, drops cfs_b->lock and calls
\* distribute_cfs_runtime(cfs_b, remaining, expires)
DlStart(remaining) ==
    /\ dl.timer.pc = "idle"
    /\ ~dl.distribute_running
    /\ dl.next[DlHead] # DlHead
    /\ dl' = [dl EXCEPT !.distribute_running = TRUE,
                        !.timer = [pc |-> "next", cur |-> DlHead, remaining |-> remaining,
                                   expires |-> dl.timer.expires + 1],
                        !.last = DlNoVisit]
    /\ UNCHANGED <<se, cfs_rq, cfs_b, rq, task, now, ops, obs, mig, dist, avg, tune, hmp, imb, offline, det, lb, ab, lk, ret, pt, tc, hy, tm, af, cn>>

\* list_for_each_entry_rcu(): the next entry, or the end of the loop and the
\* callback's clearing of distribute_running
DlNext ==
    /\ dl.timer.pc = "next"
    /\ dl' = IF dl.next[dl.timer.cur] = DlHead
             THEN [dl EXCEPT !.timer.pc = "idle", !.timer.cur = DlHead,
                             !.distribute_running = FALSE, !.last = DlNoVisit]
             ELSE [dl EXCEPT !.timer.pc = "lock", !.timer.cur = dl.next[dl.timer.cur],
                             !.last = DlNoVisit]
    /\ UNCHANGED <<se, cfs_rq, cfs_b, rq, task, now, ops, obs, mig, dist, avg, tune, hmp, imb, offline, det, lb, ab, lk, ret, pt, tc, hy, tm, af, cn>>

\* raw_spin_lock(&rq->lock) of the loop
DlLock ==
    /\ dl.timer.pc = "lock"
    /\ dl.lock[dl.timer.cur] = "none"
    /\ dl' = [dl EXCEPT !.lock[dl.timer.cur] = "timer", !.timer.pc = "body",
                        !.last = DlNoVisit]
    /\ UNCHANGED <<se, cfs_rq, cfs_b, rq, task, now, ops, obs, mig, dist, avg, tune, hmp, imb, offline, det, lb, ab, lk, ret, pt, tc, hy, tm, af, cn>>

\* the body of the loop, the unlock and the test of remaining
DlBody ==
    /\ dl.timer.pc = "body"
    /\ dl' = With([d \in {distribute_one(dl, dl.timer.cur)} |->
             IF d.timer.remaining = 0
             THEN [d EXCEPT !.lock[dl.timer.cur] = "none", !.timer.pc = "idle",
                            !.timer.cur = DlHead, !.distribute_running = FALSE]
             ELSE [d EXCEPT !.lock[dl.timer.cur] = "none", !.timer.pc = "next"]])
    /\ UNCHANGED <<se, cfs_rq, cfs_b, rq, task, now, ops, obs, mig, dist, avg, tune, hmp, imb, offline, det, lb, ab, lk, ret, pt, tc, hy, tm, af, cn>>

NextDl ==
    \/ \E c \in DlCpus, left \in {0 - 2, 0} : DlThrottle(c, left)
    \/ \E c \in DlCpus : DlOffline(c)
    \/ \E remaining \in {1, 4} : DlStart(remaining)
    \/ DlNext
    \/ DlLock
    \/ DlBody

SpecDl == InitDl /\ [][NextDl]_vars

\* ============================================= the order of locks, SpecLk
\* The locks of one group on two CPUs: cfs_b->lock and the rq->lock of each
\* CPU.  A thread is a CPU in a scheduler path or a timer callback; what it
\* does to the locks is a sequence of lock and unlock operations, read off
\* the source, and lk holds what each thread has still to do and who owns
\* each lock.  A thread whose next operation is a lock spins until the lock
\* is free.
LkCpus == {"cpu0", "cpu1"}
LkTimers == {"period", "slack"}
LkThreads == LkCpus \cup LkTimers
LkPool == "cfs_b"
LkLocks == LkCpus \cup {LkPool}

Lock(l) == <<"lock", l>>
Unlock(l) == <<"unlock", l>>

\* rq->lock of CPU a comes before that of CPU b
LkBefore(a, b) == a = "cpu0" /\ b = "cpu1"

\* update_curr() or an enqueue under rq->lock: assign_cfs_rq_runtime(), with
\* __start_cfs_bandwidth() bouncing cfs_b->lock if bounce, and
\* throttle_cfs_rq() if throttle
assign_path(c, bounce, throttle) ==
    <<Lock(c), Lock(LkPool)>>
    \o (IF bounce THEN <<Unlock(LkPool), Lock(LkPool)>> ELSE <<>>)
    \o <<Unlock(LkPool)>>
    \o (IF throttle THEN <<Lock(LkPool), Unlock(LkPool)>> ELSE <<>>)
    \o <<Unlock(c)>>

\* a dequeue under rq->lock that empties the queue: __return_cfs_rq_runtime()
return_path(c) ==
    <<Lock(c), Lock(LkPool), Unlock(LkPool), Unlock(c)>>

\* distribute_cfs_runtime() for a throttled queue of CPU c:
\* unthrottle_cfs_rq() takes cfs_b->lock under rq->lock
distribute_path(c) ==
    <<Lock(c), Lock(LkPool), Unlock(LkPool), Unlock(c)>>

\* sched_cfs_period_timer() that keeps cfs_b->lock while it distributes
period_timer_path_nested(c) ==
    <<Lock(LkPool)>> \o distribute_path(c) \o <<Unlock(LkPool)>>

\* sched_cfs_period_timer(): do_sched_cfs_period_timer() drops cfs_b->lock
\* around distribute_cfs_runtime()
period_timer_path(c) ==
    <<Lock(LkPool), Unlock(LkPool)>> \o distribute_path(c)
    \o <<Lock(LkPool), Unlock(LkPool)>>

\* do_sched_cfs_slack_timer()
slack_timer_path(c) ==
    <<Lock(LkPool), Unlock(LkPool)>> \o distribute_path(c)
    \o <<Lock(LkPool), Unlock(LkPool)>>

\* double_lock_balance(src, dst) with src's lock held: both in the fixed
\* order of the run queues
double_lock_balance(src, dst) ==
    IF LkBefore(src, dst) THEN <<Lock(dst)>>
    ELSE <<Unlock(src), Lock(dst), Lock(src)>>

\* load_balance() on CPU dst pulling from src: detach_tasks() under
\* busiest->lock (detach_task() takes both locks for set_task_cpu(), and the
\* dequeue may hand runtime back), then attach_tasks() under dst's lock
\* (the enqueue may throttle)
migrate_path(src, dst, slack, throttle) ==
    <<Lock(src)>>
    \o (IF slack THEN <<Lock(LkPool), Unlock(LkPool)>> ELSE <<>>)
    \o double_lock_balance(src, dst)
    \o <<Unlock(dst), Unlock(src), Lock(dst)>>
    \o (IF throttle THEN <<Lock(LkPool), Unlock(LkPool)>> ELSE <<>>)
    \o <<Unlock(dst)>>

\* the paths a thread can start
LkPaths(t) ==
    IF t = "period" THEN {period_timer_path(c) : c \in LkCpus}
    ELSE IF t = "slack" THEN {slack_timer_path(c) : c \in LkCpus}
    ELSE {assign_path(t, b, th) : b \in BOOLEAN, th \in BOOLEAN}
         \cup {return_path(t)}
         \cup {migrate_path(src, t, s, th) :
                   src \in LkCpus \ {t}, s \in BOOLEAN, th \in BOOLEAN}

InitLk ==
    /\ se = InitSe
    /\ cfs_rq = InitCfsRq({})
    /\ cfs_b = InitCfsB([q \in Queues |-> RUNTIME_INF], [q \in Queues |-> default_cfs_period])
    /\ rq = InitRq(4 * MSEC, 4 * MSEC)
    /\ task = [p \in Tasks |-> "away"]
    /\ now = 0
    /\ ops = 0
    /\ obs = InitObs
    /\ mig = NULL
    /\ lk = [owner |-> [l \in LkLocks |-> "none"],
             todo |-> [t \in LkThreads |-> <<>>]]
    /\ dist = NULL
    /\ avg = NULL
    /\ tune = NULL
    /\ hmp = NULL
    /\ imb = NULL
    /\ offline = NULL
    /\ det = NULL
    /\ lb = NULL
    /\ ab = NULL
    /\ dl = NULL
    /\ ret = NULL
    /\ pt = NULL
    /\ tc = NULL
    /\ hy = NULL
    /\ tm = NULL
    /\ af = NULL
    /\ cn = NULL

\* thread t enters a path
LkStart(t, path) ==
    /\ lk.todo[t] = <<>>
    /\ lk' = [lk EXCEPT !.todo[t] = path]
    /\ UNCHANGED <<se, cfs_rq, cfs_b, rq, task, now, ops, obs, mig, dist, avg, tune, hmp, imb, offline, det, lb, ab, dl, ret, pt, tc, hy, tm, af, cn>>

\* raw_spin_lock(): thread t gets the lock it spins on
LkAcquire(t) ==
    /\ lk.todo[t] # <<>>
    /\ Head(lk.todo[t])[1] = "lock"
    /\ lk.owner[Head(lk.todo[t])[2]] = "none"
    /\ lk' = [lk EXCEPT !.owner[Head(lk.todo[t])[2]] = t, !.todo[t] = Tail(@)]
    /\ UNCHANGED <<se, cfs_rq, cfs_b, rq, task, now, ops, obs, mig, dist, avg, tune, hmp, imb, offline, det, lb, ab, dl, ret, pt, tc, hy, tm, af, cn>>

\* raw_spin_unlock()
LkRelease(t) ==
    /\ lk.todo[t] # <<>>
    /\ Head(lk.todo[t])[1] = "unlock"
    /\ lk' = [lk EXCEPT !.owner[Head(lk.todo[t])[2]] = "none", !.todo[t] = Tail(@)]
    /\ UNCHANGED <<se, cfs_rq, cfs_b, rq, task, now, ops, obs, mig, dist, avg, tune, hmp, imb, offline, det, lb, ab, dl, ret, pt, tc, hy, tm, af, cn>>

NextLk ==
    \/ \E t \in LkThreads : \E path \in LkPaths(t) : LkStart(t, path)
    \/ \E t \in LkThreads : LkAcquire(t)
    \/ \E t \in LkThreads : LkRelease(t)

SpecLk == InitLk /\ [][NextLk]_vars

\* ================================ return_cfs_rq_runtime() applied, SpecRet
\* The queue of g1 as dequeue_entity() leaves it before it calls
\* return_cfs_rq_runtime(): runtime_enabled, nr_running, runtime_remaining
\* and runtime_expires of the queue, quota, runtime and runtime_expires of
\* the pool are drawn from small sets; ret keeps what they were.
RetRemaining == {0 - MSEC, 0, min_cfs_rq_runtime - 1, min_cfs_rq_runtime,
                 min_cfs_rq_runtime + 1, 3 * MSEC}
RetPool == {0, 4 * MSEC, 5 * MSEC}
RetQuota == {RUNTIME_INF, 12 * MSEC}
RetExpires == {default_cfs_period, 2 * default_cfs_period}

RetCfsRq(enabled, nr, remaining, expires) ==
    [InitCfsRq({}) EXCEPT !["g1"].runtime_enabled = enabled,
                          !["g1"].nr_running = nr,
                          !["g1"].runtime_remaining = remaining,
                          !["g1"].runtime_expires = expires]

RetCfsB(quota, pool) ==
    [InitCfsB([q \in Queues |-> RUNTIME_INF], [q \in Queues |-> default_cfs_period])
         EXCEPT !["g1"].quota = quota,
                !["g1"].runtime = pool,
                !["g1"].runtime_expires = 2 * default_cfs_period,
                !["g1"].timer_active = quota # RUNTIME_INF]

InitRet ==
    /\ se = InitSe
    /\ \E enabled \in BOOLEAN, nr \in {0, 1}, remaining \in RetRemaining,
          expires \in RetExpires : cfs_rq = RetCfsRq(enabled, nr, remaining, expires)
    /\ \E quota \in RetQuota, pool \in RetPool : cfs_b = RetCfsB(quota, pool)
    /\ rq = InitRq(4 * MSEC, 4 * MSEC)
    /\ task = [p \in Tasks |-> "away"]
    /\ now = 0
    /\ ops = 0
    /\ obs = InitObs
    /\ mig = NULL
    /\ ret = [called |-> FALSE, runtime_remaining |-> cfs_rq["g1"].runtime_remaining,
              runtime |-> cfs_b["g1"].runtime]
    /\ dist = NULL
    /\ avg = NULL
    /\ tune = NULL
    /\ hmp = NULL
    /\ imb = NULL
    /\ offline = NULL
    /\ det = NULL
    /\ lb = NULL
    /\ ab = NULL
    /\ dl = NULL
    /\ lk = NULL
    /\ pt = NULL
    /\ tc = NULL
    /\ hy = NULL
    /\ tm = NULL
    /\ af = NULL
    /\ cn = NULL

\* dequeue_entity() calls return_cfs_rq_runtime(cfs_rq)
ReturnRuntime ==
    /\ ~ret.called
    /\ Commit(return_cfs_rq_runtime(St, "g1"))
    /\ ret' = [ret EXCEPT !.called = TRUE]
    /\ UNCHANGED <<task, now, ops, mig, dist, avg, tune, hmp, imb, offline, det, lb, ab, dl, lk, pt, tc, hy, tm, af, cn>>

NextRet == ReturnRuntime

SpecRet == InitRet /\ [][NextRet]_vars

\* ===================================== ticks at any distance, SpecPt
\* The two entities of SpecFair on the root queue, t1 with a weight of its
\* own, and ticks that come any time after the last pick: what SpecFair's
\* whole ticks leave out is an entity that has run for less than
\* sysctl_sched_min_granularity when the tick comes.
MaxPtTicks == 3

PtWeights == {15, NICE_0_LOAD, 2 * NICE_0_LOAD}
PtLeads == {0, 1}
PtDeltas == {50 * NSEC_PER_USEC, 500 * NSEC_PER_USEC, 800 * NSEC_PER_USEC, 4 * MSEC}

InitPt ==
    /\ \E weight \in PtWeights, lead \in PtLeads :
       \E s \in {schedule_pick(FairStart(weight, 4, lead), NULL)} :
           /\ se = s.se
           /\ cfs_rq = s.cfs_rq
           /\ cfs_b = s.cfs_b
           /\ rq = s.rq
           /\ obs = s.obs
    /\ task = [p \in Tasks |-> IF p = "t3" THEN "away" ELSE "queued"]
    /\ now = 0
    /\ ops = 0
    /\ mig = NULL
    /\ pt = [ticks |-> 0, last |-> "pick"]
    /\ dist = NULL
    /\ avg = NULL
    /\ tune = NULL
    /\ hmp = NULL
    /\ imb = NULL
    /\ offline = NULL
    /\ det = NULL
    /\ lb = NULL
    /\ ab = NULL
    /\ dl = NULL
    /\ lk = NULL
    /\ ret = NULL
    /\ tc = NULL
    /\ hy = NULL
    /\ tm = NULL
    /\ af = NULL
    /\ cn = NULL

\* scheduler_tick() delta after the step before
PtTick(delta) ==
    /\ ~rq.need_resched
    /\ pt.ticks < MaxPtTicks
    /\ now' = now + delta
    /\ Commit(task_tick_fair([St EXCEPT !.rq.clock = now + delta], rq.curr))
    /\ pt' = [ticks |-> pt.ticks + 1, last |-> "tick"]
    /\ UNCHANGED <<task, ops, mig, dist, avg, tune, hmp, imb, offline, det, lb, ab, dl, lk, ret, tc, hy, tm, af, cn>>

\* __schedule() on the need_resched that a tick set
PtSchedule ==
    /\ rq.need_resched
    /\ Commit(schedule_pick(update_rq_clock(St), rq.curr))
    /\ pt' = [pt EXCEPT !.last = "pick"]
    /\ UNCHANGED <<task, now, ops, mig, dist, avg, tune, hmp, imb, offline, det, lb, ab, dl, lk, ret, tc, hy, tm, af, cn>>

NextPt ==
    \/ \E delta \in PtDeltas : PtTick(delta)
    \/ PtSchedule

SpecPt == InitPt /\ [][NextPt]_vars

\* ================================= groups created late, SpecTc
\* The CPU of Spec with the tasks t2 (of g1) and t3 (of g2, below g1), both
\* groups with a quota, and groups that are created while the scheduler
\* runs: a queue that has not had its first enqueue can be one that
\* init_tg_cfs_entry() set up a moment ago, with a throttle_count of 0
\* whatever its ancestors' state.  tc keeps the groups so created.
MaxTcTicks == 4

TcQuota == [q \in Queues |-> CASE q = "g1" -> 3 * MSEC [] q = "g2" -> 2 * MSEC
                               [] OTHER -> RUNTIME_INF]
TcPeriod == [q \in Queues |-> CASE q = "root" -> default_cfs_period [] OTHER -> 12 * MSEC]

InitTc ==
    /\ se = InitSe
    /\ cfs_rq = InitCfsRq(Groups)
    /\ cfs_b = InitCfsB(TcQuota, TcPeriod)
    /\ rq = InitRq(4 * MSEC, 4 * MSEC)
    /\ task = [p \in Tasks |-> "away"]
    /\ now = 0
    /\ ops = 0
    /\ obs = InitObs
    /\ mig = NULL
    /\ tc = [created |-> {}]
    /\ dist = NULL
    /\ avg = NULL
    /\ tune = NULL
    /\ hmp = NULL
    /\ imb = NULL
    /\ offline = NULL
    /\ det = NULL
    /\ lb = NULL
    /\ ab = NULL
    /\ dl = NULL
    /\ lk = NULL
    /\ ret = NULL
    /\ pt = NULL
    /\ hy = NULL
    /\ tm = NULL
    /\ af = NULL
    /\ cn = NULL

\* alloc_fair_sched_group() of group g now: init_cfs_rq() and
\* init_tg_cfs_entry() of its queue, and of those of the groups below it,
\* which come later still
CreateGroup(g) ==
    /\ g \notin tc.created
    /\ \A q \in TgSubtree(g) : ~cfs_rq[q].throttle_uptodate
    /\ cfs_rq' = [q \in Queues |->
                     IF q \in TgSubtree(g) THEN [cfs_rq[q] EXCEPT !.throttle_count = 0]
                     ELSE cfs_rq[q]]
    /\ tc' = [tc EXCEPT !.created = @ \cup {g}]
    /\ UNCHANGED <<se, cfs_b, rq, task, now, ops, obs, mig, dist, avg, tune, hmp, imb, offline, det, lb, ab, dl, lk, ret, pt, hy, tm, af, cn>>

AdvanceTc ==
    /\ ~rq.need_resched
    /\ now < NextEvent
    /\ now' = NextEvent
    /\ now' <= MaxTcTicks * rq.tick_nsec
    /\ UNCHANGED <<se, cfs_rq, cfs_b, rq, task, ops, obs, mig, dist, avg, tune, hmp, imb, offline, det, lb, ab, dl, lk, ret, pt, tc, hy, tm, af, cn>>

NextTc ==
    \/ \E p \in {"t2", "t3"} : Arrive(p)
    \/ \E p \in {"t2", "t3"} : Leave(p)
    \/ Schedule
    \/ Tick
    \/ \E g \in Groups : PeriodTimer(g)
    \/ \E g \in Groups : CreateGroup(g)
    \/ AdvanceTc

SpecTc == InitTc /\ [][NextTc]_vars

\* ============================================ the migration band, SpecHys
\* One task on the machine of SpecSel, looked at by migration_needed() on
\* the CPU it runs on and by task_will_fit() for any CPU, while it is moved
\* between the clusters, its load changes, sched_boost() is switched and
\* the thresholds are set again by update_up_down_migrate().  Loads and
\* thresholds are in ns of a window of 1 ms; hy.last is the last answer
\* given for the present state, kind "none" when the state changed since.
sched_ravg_window == MSEC

HyPcts == {<<80, 60>>, <<95, 90>>, <<70, 70>>}
HyScaleFactors == {1024, 1280}
HyLoads == {40 * NSEC_PER_USEC, 300 * NSEC_PER_USEC, 350 * NSEC_PER_USEC,
            400 * NSEC_PER_USEC, 450 * NSEC_PER_USEC}
HyNices == {0, 19}
\* p->grp: 0 for no group, else the capacity of grp->preferred_cluster
HyGrps == {0, 1024}

max_task_load == sched_ravg_window

\* a tunable in percent of max_task_load()
pct_to_real(pct) == (pct * max_task_load) \div 100

\* sched_upmigrate and sched_downmigrate; unsigned int at the width of U64Mod
update_up_down_migrate(up_pct, down_pct, up_down_migrate_scale_factor) ==
    With([up0 \in {pct_to_real(up_pct)} |->
    With([down0 \in {pct_to_real(down_pct)} |->
    IF up_down_migrate_scale_factor = 1024 THEN [up |-> up0, down |-> down0]
    ELSE With([delta \in {(up0 - down0) % U64Mod} |->
         With([up \in {Min((((((up0 \div NSEC_PER_USEC) * up_down_migrate_scale_factor) % U64Mod)
                             \div 1024) * NSEC_PER_USEC) % U64Mod,
                           sched_ravg_window)} |->
         With([down \in {(((((down0 \div NSEC_PER_USEC) * up_down_migrate_scale_factor) % U64Mod)
                             \div 1024) * NSEC_PER_USEC) % U64Mod} |->
             [up |-> up, down |-> Min(down, (up - delta) % U64Mod)]])])])])])

preferred_cluster(h, capacity, p) ==
    IF p.grp = 0 \/ ~h.sysctl_sched_enable_colocation \/ p.grp = h.min_capacity THEN TRUE
    ELSE p.grp = capacity

\* migration_needed() of the task p on the run queue of cpu;
\* sysctl_sched_enable_power_aware is 0, as it is defined
migration_needed(h, p, cpu) ==
    IF ~h.sched_enable_hmp \/ ~p.running \/ p.nr_cpus_allowed = 1 THEN 0
    ELSE IF p.will_be_throttled THEN 0
    ELSE IF h.sched_boost
    THEN IF p.nice > h.sched_upmigrate_min_nice
         THEN IF /\ h.sysctl_sched_enable_colocation
                 /\ p.grp # 0
                 /\ p.grp = h.max_capacity
                 /\ h.rq[cpu].capacity # h.max_capacity
              THEN UP_MIGRATION ELSE 0
         ELSE IF h.rq[cpu].capacity # h.max_capacity THEN UP_MIGRATION ELSE 0
    ELSE IF ~preferred_cluster(h, h.rq[cpu].capacity, p) THEN PREFERRED_CLUSTER_MIGRATION
    ELSE IF is_small_task(h, p) THEN 0
    ELSE IF h.rq[cpu].high_irqload THEN IRQLOAD_MIGRATION
    ELSE IF /\ (~h.sysctl_sched_enable_colocation \/ p.grp = 0 \/ p.grp = h.min_capacity)
            /\ (p.nice > h.sched_upmigrate_min_nice \/ h.upmigrate_discouraged)
            /\ h.rq[cpu].capacity > h.min_capacity
    THEN DOWN_MIGRATION
    ELSE IF ~task_will_fit(h, p, cpu) THEN UP_MIGRATION
    ELSE 0

HySetThresholds(h, pcts, factor) ==
    With([t \in {update_up_down_migrate(pcts[1], pcts[2], factor)} |->
        [h EXCEPT !.sched_upmigrate = t.up, !.sched_downmigrate = t.down]])

\* the machine with all CPUs idle but for the interrupt load of CPU 0
InitHysState(irq, boost, colocation, discouraged) ==
    With([st \in {[c \in HmpCpus |->
                     [cumulative_runnable_avg |-> 0, curr_demand |-> 0, nr_running |-> 0,
                      cstate |-> 0, high_irqload |-> irq /\ c = 0]]} |->
    With([h \in {InitSelState(st, FALSE, FALSE, boost, 1)} |->
        [h |-> [a \in DOMAIN h \cup {"sched_enable_hmp", "sysctl_sched_enable_colocation",
                                     "min_capacity"} |->
                   CASE a = "sched_enable_hmp" -> TRUE
                     [] a = "sysctl_sched_enable_colocation" -> colocation
                     [] a = "min_capacity" -> 512
                     [] a = "upmigrate_discouraged" -> discouraged
                     [] a = "sched_small_task" -> pct_to_real(10)
                     [] a = "sched_upmigrate" -> update_up_down_migrate(80, 60, 1024).up
                     [] a = "sched_downmigrate" -> update_up_down_migrate(80, 60, 1024).down
                     [] OTHER -> h[a]],
         p |-> [load |-> 350 * NSEC_PER_USEC, cpu |-> 0, nice |-> 0, grp |-> 0,
                running |-> TRUE, nr_cpus_allowed |-> 3, will_be_throttled |-> FALSE],
         last |-> [kind |-> "none", cpu |-> 0, rc |-> 0, fit |-> FALSE]]])])

InitHys ==
    /\ se = InitSe
    /\ cfs_rq = InitCfsRq({})
    /\ cfs_b = InitCfsB([q \in Queues |-> RUNTIME_INF], [q \in Queues |-> default_cfs_period])
    /\ rq = InitRq(4 * MSEC, 4 * MSEC)
    /\ task = [p \in Tasks |-> "away"]
    /\ now = 0
    /\ ops = 0
    /\ obs = InitObs
    /\ mig = NULL
    /\ hy \in {InitHysState(irq, FALSE, colocation, discouraged) :
                  irq \in BOOLEAN, colocation \in BOOLEAN, discouraged \in BOOLEAN}
    /\ dist = NULL
    /\ avg = NULL
    /\ tune = NULL
    /\ hmp = NULL
    /\ imb = NULL
    /\ offline = NULL
    /\ det = NULL
    /\ lb = NULL
    /\ ab = NULL
    /\ dl = NULL
    /\ lk = NULL
    /\ ret = NULL
    /\ pt = NULL
    /\ tc = NULL
    /\ tm = NULL
    /\ af = NULL
    /\ cn = NULL

HyStale == [hy.last EXCEPT !.kind = "none"]

\* the thresholds are set again
HyTune(pcts, factor) ==
    /\ hy' = [hy EXCEPT !.h = HySetThresholds(@, pcts, factor), !.last = HyStale]
    /\ UNCHANGED <<se, cfs_rq, cfs_b, rq, task, now, ops, obs, mig, dist, avg, tune, hmp, imb, offline, det, lb, ab, dl, lk, ret, pt, tc, tm, af, cn>>

\* sched_set_boost()
HyBoost(enable) ==
    /\ hy' = [hy EXCEPT !.h.sched_boost = enable, !.last = HyStale]
    /\ UNCHANGED <<se, cfs_rq, cfs_b, rq, task, now, ops, obs, mig, dist, avg, tune, hmp, imb, offline, det, lb, ab, dl, lk, ret, pt, tc, tm, af, cn>>

\* the load of the task changes
HyLoad(load) ==
    /\ hy' = [hy EXCEPT !.p.load = load, !.last = HyStale]
    /\ UNCHANGED <<se, cfs_rq, cfs_b, rq, task, now, ops, obs, mig, dist, avg, tune, hmp, imb, offline, det, lb, ab, dl, lk, ret, pt, tc, tm, af, cn>>

\* the task is moved to a CPU
HyMove(cpu) ==
    /\ hy' = [hy EXCEPT !.p.cpu = cpu, !.last = HyStale]
    /\ UNCHANGED <<se, cfs_rq, cfs_b, rq, task, now, ops, obs, mig, dist, avg, tune, hmp, imb, offline, det, lb, ab, dl, lk, ret, pt, tc, tm, af, cn>>

\* set_user_nice(), and the related thread group of the task
HyNice(nice, grp) ==
    /\ hy' = [hy EXCEPT !.p.nice = nice, !.p.grp = grp, !.last = HyStale]
    /\ UNCHANGED <<se, cfs_rq, cfs_b, rq, task, now, ops, obs, mig, dist, avg, tune, hmp, imb, offline, det, lb, ab, dl, lk, ret, pt, tc, tm, af, cn>>

\* check_for_migration() on the CPU of the task
HyCheck ==
    /\ hy' = [hy EXCEPT !.last = [kind |-> "check", cpu |-> hy.p.cpu,
                                  rc |-> migration_needed(hy.h, hy.p, hy.p.cpu),
                                  fit |-> FALSE]]
    /\ UNCHANGED <<se, cfs_rq, cfs_b, rq, task, now, ops, obs, mig, dist, avg, tune, hmp, imb, offline, det, lb, ab, dl, lk, ret, pt, tc, tm, af, cn>>

\* task_will_fit() for a CPU
HyFit(cpu) ==
    /\ hy' = [hy EXCEPT !.last = [kind |-> "fit", cpu |-> cpu, rc |-> 0,
                                  fit |-> task_will_fit(hy.h, hy.p, cpu)]]
    /\ UNCHANGED <<se, cfs_rq, cfs_b, rq, task, now, ops, obs, mig, dist, avg, tune, hmp, imb, offline, det, lb, ab, dl, lk, ret, pt, tc, tm, af, cn>>

NextHys ==
    \/ \E pcts \in HyPcts, factor \in HyScaleFactors : HyTune(pcts, factor)
    \/ \E enable \in BOOLEAN : HyBoost(enable)
    \/ \E load \in HyLoads : HyLoad(load)
    \/ \E cpu \in {0, 2} : HyMove(cpu)
    \/ \E nice \in HyNices, grp \in HyGrps : HyNice(nice, grp)
    \/ HyCheck
    \/ \E cpu \in HmpCpus : HyFit(cpu)

SpecHys == InitHys /\ [][NextHys]_vars

\* ======================================== the period timer armed, SpecTm
\* The period timer of one group with a finite quota and queues on two CPUs.
\* The callback and the two CPUs are threads that take cfs_b->lock; a step
\* is what a thread does between two lock operations.  tm.hr is the state
\* of the hrtimer: "inactive", "enqueued" (armed) or "callback"
\* (sched_cfs_period_timer() is running); tm.list is the set of CPUs whose
\* queue is on cfs_b->throttled_cfs_rq; the pool holds units of one slice.
MaxTmPasses == 2
TmQuota == 2

TmCpus == {"cpu0", "cpu1"}
TmTimer == "timer"

\* do_sched_cfs_period_timer() that goes inactive whenever the group was idle
period_deactivate_idle_only(t) == t.idle

\* do_sched_cfs_period_timer(): goto out_deactivate
period_deactivate(t) == t.idle /\ t.list = {}

InitTmState ==
    [lock |-> "free", timer_active |-> FALSE, hr |-> "inactive", idle |-> FALSE,
     runtime |-> 0, list |-> {}, passes |-> 0, idle_ret |-> FALSE, used |-> 0,
     pc |-> [t \in TmCpus \cup {TmTimer} |-> IF t = TmTimer THEN "wait" ELSE "run"],
     after |-> [c \in TmCpus |-> "run"]]

InitTm ==
    /\ se = InitSe
    /\ cfs_rq = InitCfsRq({})
    /\ cfs_b = InitCfsB([q \in Queues |-> RUNTIME_INF], [q \in Queues |-> default_cfs_period])
    /\ rq = InitRq(4 * MSEC, 4 * MSEC)
    /\ task = [p \in Tasks |-> "away"]
    /\ now = 0
    /\ ops = 0
    /\ obs = InitObs
    /\ mig = NULL
    /\ tm = InitTmState
    /\ dist = NULL
    /\ avg = NULL
    /\ tune = NULL
    /\ hmp = NULL
    /\ imb = NULL
    /\ offline = NULL
    /\ det = NULL
    /\ lb = NULL
    /\ ab = NULL
    /\ dl = NULL
    /\ lk = NULL
    /\ ret = NULL
    /\ pt = NULL
    /\ tc = NULL
    /\ hy = NULL
    /\ af = NULL
    /\ cn = NULL

\* account_cfs_rq_runtime() of a queue that has used up its runtime
TmAccount(c) ==
    /\ tm.pc[c] = "run"
    /\ c \notin tm.list
    /\ tm' = [tm EXCEPT !.pc[c] = "a_lock"]
    /\ UNCHANGED <<se, cfs_rq, cfs_b, rq, task, now, ops, obs, mig, dist, avg, tune, hmp, imb, offline, det, lb, ab, dl, lk, ret, pt, tc, hy, af, cn>>

\* assign_cfs_rq_runtime(): raw_spin_lock, the test of timer_active and the refill
TmAssignLock(c) ==
    /\ tm.pc[c] = "a_lock"
    /\ tm.lock = "free"
    /\ tm' = IF ~tm.timer_active
             THEN [tm EXCEPT !.lock = c, !.runtime = TmQuota, !.pc[c] = "start",
                             !.after[c] = "a_take"]
             ELSE [tm EXCEPT !.lock = c, !.pc[c] = "a_take"]
    /\ UNCHANGED <<se, cfs_rq, cfs_b, rq, task, now, ops, obs, mig, dist, avg, tune, hmp, imb, offline, det, lb, ab, dl, lk, ret, pt, tc, hy, af, cn>>

\* __start_cfs_bandwidth(cfs_b, false): the test of the while loop; the
\* unlock of the bounce when the callback is running, else timer_active = 1
\* and start_bandwidth_timer()
TmStart(c) ==
    /\ tm.pc[c] = "start"
    /\ tm.lock = c
    /\ tm' = IF tm.hr = "callback"
             THEN [tm EXCEPT !.lock = "free", !.pc[c] = "bounce"]
             ELSE [tm EXCEPT !.timer_active = TRUE, !.hr = "enqueued", !.pc[c] = tm.after[c]]
    /\ UNCHANGED <<se, cfs_rq, cfs_b, rq, task, now, ops, obs, mig, dist, avg, tune, hmp, imb, offline, det, lb, ab, dl, lk, ret, pt, tc, hy, af, cn>>

\* __start_cfs_bandwidth(): the lock of the bounce and the test of timer_active
TmBounce(c) ==
    /\ tm.pc[c] = "bounce"
    /\ tm.lock = "free"
    /\ tm' = [tm EXCEPT !.lock = c,
                        !.pc[c] = IF tm.timer_active THEN tm.after[c] ELSE "start"]
    /\ UNCHANGED <<se, cfs_rq, cfs_b, rq, task, now, ops, obs, mig, dist, avg, tune, hmp, imb, offline, det, lb, ab, dl, lk, ret, pt, tc, hy, af, cn>>

\* assign_cfs_rq_runtime(): the draw and raw_spin_unlock; with nothing drawn
\* check_cfs_rq_runtime() goes on to throttle_cfs_rq()
TmAssignTake(c) ==
    /\ tm.pc[c] = "a_take"
    /\ tm.lock = c
    /\ tm' = IF tm.runtime > 0
             THEN [tm EXCEPT !.runtime = @ - 1, !.idle = FALSE, !.lock = "free",
                             !.pc[c] = "run"]
             ELSE [tm EXCEPT !.lock = "free", !.pc[c] = "t_lock"]
    /\ UNCHANGED <<se, cfs_rq, cfs_b, rq, task, now, ops, obs, mig, dist, avg, tune, hmp, imb, offline, det, lb, ab, dl, lk, ret, pt, tc, hy, af, cn>>

\* throttle_cfs_rq(): raw_spin_lock, list_add_rcu and the test of timer_active
TmThrottleLock(c) ==
    /\ tm.pc[c] = "t_lock"
    /\ tm.lock = "free"
    /\ tm' = [tm EXCEPT !.lock = c, !.list = @ \cup {c},
                        !.pc[c] = IF ~tm.timer_active THEN "start" ELSE "t_unlock",
                        !.after[c] = "t_unlock"]
    /\ UNCHANGED <<se, cfs_rq, cfs_b, rq, task, now, ops, obs, mig, dist, avg, tune, hmp, imb, offline, det, lb, ab, dl, lk, ret, pt, tc, hy, af, cn>>

\* throttle_cfs_rq(): raw_spin_unlock
TmThrottleUnlock(c) ==
    /\ tm.pc[c] = "t_unlock"
    /\ tm.lock = c
    /\ tm' = [tm EXCEPT !.lock = "free", !.pc[c] = "run"]
    /\ UNCHANGED <<se, cfs_rq, cfs_b, rq, task, now, ops, obs, mig, dist, avg, tune, hmp, imb, offline, det, lb, ab, dl, lk, ret, pt, tc, hy, af, cn>>

\* the hrtimer expires
TmFire ==
    /\ tm.hr = "enqueued"
    /\ tm.pc[TmTimer] = "wait"
    /\ tm' = [tm EXCEPT !.hr = "callback", !.pc[TmTimer] = "lock", !.passes = 0,
                        !.idle_ret = FALSE]
    /\ UNCHANGED <<se, cfs_rq, cfs_b, rq, task, now, ops, obs, mig, dist, avg, tune, hmp, imb, offline, det, lb, ab, dl, lk, ret, pt, tc, hy, af, cn>>

\* sched_cfs_period_timer(): raw_spin_lock
TmTimerLock ==
    /\ tm.pc[TmTimer] = "lock"
    /\ tm.lock = "free"
    /\ tm' = [tm EXCEPT !.lock = TmTimer, !.pc[TmTimer] = "loop"]
    /\ UNCHANGED <<se, cfs_rq, cfs_b, rq, task, now, ops, obs, mig, dist, avg, tune, hmp, imb, offline, det, lb, ab, dl, lk, ret, pt, tc, hy, af, cn>>

\* the while loop of do_sched_cfs_period_timer(): the unlock before
\* distribute_cfs_runtime(), or the end of the function
period_distribute_or_return(t) ==
    IF t.list # {} /\ t.runtime > 0
    THEN [t EXCEPT !.lock = "free", !.pc[TmTimer] = "dist"]
    ELSE [t EXCEPT !.idle = FALSE, !.idle_ret = FALSE, !.pc[TmTimer] = "loop"]

\* one pass of the loop of sched_cfs_period_timer(): hrtimer_forward()
\* reports an overrun or not, and do_sched_cfs_period_timer() up to its
\* return or its first unlock
TmLoop(overrun) ==
    /\ tm.pc[TmTimer] = "loop"
    /\ tm.lock = TmTimer
    /\ tm.passes = 0 => overrun
    /\ tm.passes >= MaxTmPasses => ~overrun
    /\ tm' = IF ~overrun THEN [tm EXCEPT !.lock = "free", !.pc[TmTimer] = "ret"]
             ELSE With([t \in {[tm EXCEPT !.passes = @ + 1]} |->
                  IF period_deactivate(t)
                  THEN [t EXCEPT !.timer_active = FALSE, !.idle_ret = TRUE]
                  ELSE With([t1 \in {[t EXCEPT !.timer_active = TRUE,
                                               !.runtime = TmQuota]} |->
                       IF t1.list = {}
                       THEN [t1 EXCEPT !.idle = TRUE, !.idle_ret = FALSE]
                       ELSE period_distribute_or_return(t1)])])
    /\ UNCHANGED <<se, cfs_rq, cfs_b, rq, task, now, ops, obs, mig, dist, avg, tune, hmp, imb, offline, det, lb, ab, dl, lk, ret, pt, tc, hy, af, cn>>

\* distribute_cfs_runtime(): the queues of S are un-throttled with one unit each
TmDistribute(S) ==
    /\ tm.pc[TmTimer] = "dist"
    /\ S \subseteq tm.list
    /\ Cardinality(S) = Min(tm.runtime, Cardinality(tm.list))
    /\ \A c \in S : tm.pc[c] = "run"
    /\ tm' = [tm EXCEPT !.list = @ \ S, !.used = Cardinality(S), !.pc[TmTimer] = "relock"]
    /\ UNCHANGED <<se, cfs_rq, cfs_b, rq, task, now, ops, obs, mig, dist, avg, tune, hmp, imb, offline, det, lb, ab, dl, lk, ret, pt, tc, hy, af, cn>>

\* do_sched_cfs_period_timer(): raw_spin_lock after the distribution, and
\* the loop again
TmRelock ==
    /\ tm.pc[TmTimer] = "relock"
    /\ tm.lock = "free"
    /\ tm' = period_distribute_or_return(
                 [tm EXCEPT !.lock = TmTimer, !.runtime = @ - Min(tm.used, @)])
    /\ UNCHANGED <<se, cfs_rq, cfs_b, rq, task, now, ops, obs, mig, dist, avg, tune, hmp, imb, offline, det, lb, ab, dl, lk, ret, pt, tc, hy, af, cn>>

\* sched_cfs_period_timer() returns HRTIMER_NORESTART or HRTIMER_RESTART
TmReturn ==
    /\ tm.pc[TmTimer] = "ret"
    /\ tm' = [tm EXCEPT !.hr = IF tm.idle_ret THEN "inactive" ELSE "enqueued",
                        !.pc[TmTimer] = "wait"]
    /\ UNCHANGED <<se, cfs_rq, cfs_b, rq, task, now, ops, obs, mig, dist, avg, tune, hmp, imb, offline, det, lb, ab, dl, lk, ret, pt, tc, hy, af, cn>>

NextTm ==
    \/ \E c \in TmCpus : TmAccount(c)
    \/ \E c \in TmCpus : TmAssignLock(c)
    \/ \E c \in TmCpus : TmStart(c)
    \/ \E c \in TmCpus : TmBounce(c)
    \/ \E c \in TmCpus : TmAssignTake(c)
    \/ \E c \in TmCpus : TmThrottleLock(c)
    \/ \E c \in TmCpus : TmThrottleUnlock(c)
    \/ TmFire
    \/ TmTimerLock
    \/ \E overrun \in BOOLEAN : TmLoop(overrun)
    \/ \E S \in SUBSET TmCpus : TmDistribute(S)
    \/ TmRelock
    \/ TmReturn

SpecTm == InitTm /\ [][NextTm]_vars

\* ======================================= the stopper is served, SpecAbFair
\* SpecAb with what the scheduling of the kernel gives: a section under
\* rq->lock runs to its unlock, a caller that set its flag goes on to
\* stop_one_cpu_nowait(), the stopper thread is the highest-priority task
\* of its CPU and runs the queued work, and its spin on rq->lock succeeds
\* (the lock is handed over in the order of arrival).
SpecAbFair ==
    /\ InitAb
    /\ [][NextAb]_vars
    /\ WF_vars(\E c \in AbBalancers, curr_allowed \in BOOLEAN : LbKick(c, curr_allowed))
    /\ WF_vars(\E p \in {"t1", "t2"}, new_cpu \in {1, 2} : TickKick(p, new_cpu))
    /\ WF_vars(\E c \in AbCallers : AbUnlock(c))
    /\ WF_vars(\E c \in AbCallers : AbDispatch(c))
    /\ SF_vars(StopperLock)
    /\ WF_vars(\E outcome \in AbAllOutcomes : StopperRun(outcome))

\* ================================= migrations and the affinity, SpecAff
\* One task on a machine of three CPUs, with its affinity mask, moved by
\* load_balance() (detach_tasks()), by the active balance that
\* load_balance() asks for (detach_one_task()) and by the active balance of
\* check_for_migration(), which names the task in rq->push_task.  The mask
\* is changed at any time by sched_setaffinity(), which moves the task only
\* when the CPU it is on is no longer allowed.  af.last is the last
\* detach_task(): who made it, env->dst_cpu and the mask at that moment.
AfCpus == {0, 1, 2}
AfMasks == SUBSET AfCpus \ {{}}

\* can_migrate_task(): cpumask_test_cpu(env->dst_cpu, tsk_cpus_allowed(p));
\* others: the tests of throttling, of the big tasks and of the cache
can_migrate_task_allowed(a, dst_cpu, others) ==
    IF dst_cpu \notin a.cpus_allowed THEN FALSE
    ELSE others

\* active_load_balance_cpu_stop(): the test before detach_task(push_task);
\* the task is queued and runnable and the target CPU is online
push_task_detachable(a) == a.cpu = a.busiest

\* detach_task(): set_task_cpu(p, env->dst_cpu)
AfDetach(a, by, dst_cpu) ==
    [a EXCEPT !.cpu = dst_cpu,
              !.last = [by |-> by, dst |-> dst_cpu, allowed |-> a.cpus_allowed]]

InitAff ==
    /\ se = InitSe
    /\ cfs_rq = InitCfsRq({})
    /\ cfs_b = InitCfsB([q \in Queues |-> RUNTIME_INF], [q \in Queues |-> default_cfs_period])
    /\ rq = InitRq(4 * MSEC, 4 * MSEC)
    /\ task = [p \in Tasks |-> "away"]
    /\ now = 0
    /\ ops = 0
    /\ obs = InitObs
    /\ mig = NULL
    /\ \E mask \in AfMasks, cpu \in AfCpus :
           /\ cpu \in mask
           /\ af = [cpus_allowed |-> mask, cpu |-> cpu, active_balance |-> FALSE,
                    busiest |-> 0, push_cpu |-> 0, push_task |-> FALSE,
                    last |-> [by |-> "none", dst |-> cpu, allowed |-> mask]]
    /\ dist = NULL
    /\ avg = NULL
    /\ tune = NULL
    /\ hmp = NULL
    /\ imb = NULL
    /\ offline = NULL
    /\ det = NULL
    /\ lb = NULL
    /\ ab = NULL
    /\ dl = NULL
    /\ lk = NULL
    /\ ret = NULL
    /\ pt = NULL
    /\ tc = NULL
    /\ hy = NULL
    /\ tm = NULL
    /\ cn = NULL

\* sched_setaffinity(): the new mask; the task is moved to an allowed CPU
\* when its own is not in the mask
AfSetAffinity(mask, cpu) ==
    /\ cpu \in mask
    /\ af.cpu \in mask => cpu = af.cpu
    /\ af' = [af EXCEPT !.cpus_allowed = mask, !.cpu = cpu]
    /\ UNCHANGED <<se, cfs_rq, cfs_b, rq, task, now, ops, obs, mig, dist, avg, tune, hmp, imb, offline, det, lb, ab, dl, lk, ret, pt, tc, hy, tm, cn>>

\* load_balance() on dst_cpu with the CPU of the task as busiest:
\* detach_tasks() comes to the task
AfPassive(dst_cpu, others) ==
    /\ dst_cpu # af.cpu
    /\ af' = IF can_migrate_task_allowed(af, dst_cpu, others)
             THEN AfDetach(af, "passive", dst_cpu)
             ELSE af
    /\ UNCHANGED <<se, cfs_rq, cfs_b, rq, task, now, ops, obs, mig, dist, avg, tune, hmp, imb, offline, det, lb, ab, dl, lk, ret, pt, tc, hy, tm, cn>>

\* check_for_migration() of the task at the tick of its CPU:
\* select_best_cpu() searches the CPUs of the mask, and
\* kick_active_balance() names the task and the CPU found
AfTickKick(new_cpu) ==
    /\ ~af.active_balance
    /\ new_cpu \in af.cpus_allowed
    /\ new_cpu # af.cpu
    /\ af' = [af EXCEPT !.active_balance = TRUE, !.busiest = af.cpu,
                        !.push_cpu = new_cpu, !.push_task = TRUE]
    /\ UNCHANGED <<se, cfs_rq, cfs_b, rq, task, now, ops, obs, mig, dist, avg, tune, hmp, imb, offline, det, lb, ab, dl, lk, ret, pt, tc, hy, tm, cn>>

\* load_balance() on the CPU balancer asks for an active balance of the CPU of the
\* task, which is running there and allowed on it
AfLbKick(balancer) ==
    /\ ~af.active_balance
    /\ balancer \in af.cpus_allowed
    /\ balancer # af.cpu
    /\ af' = [af EXCEPT !.active_balance = TRUE, !.busiest = af.cpu,
                        !.push_cpu = balancer, !.push_task = FALSE]
    /\ UNCHANGED <<se, cfs_rq, cfs_b, rq, task, now, ops, obs, mig, dist, avg, tune, hmp, imb, offline, det, lb, ab, dl, lk, ret, pt, tc, hy, tm, cn>>

\* active_load_balance_cpu_stop() on the busiest CPU
AfStopper(others) ==
    /\ af.active_balance
    /\ af' = [(IF af.push_task
               THEN IF push_task_detachable(af)
                    THEN AfDetach(af, "push", af.push_cpu)
                    ELSE af
               ELSE IF af.cpu = af.busiest
                       /\ can_migrate_task_allowed(af, af.push_cpu, others)
                    THEN AfDetach(af, "active", af.push_cpu)
                    ELSE af)
              EXCEPT !.active_balance = FALSE, !.push_task = FALSE]
    /\ UNCHANGED <<se, cfs_rq, cfs_b, rq, task, now, ops, obs, mig, dist, avg, tune, hmp, imb, offline, det, lb, ab, dl, lk, ret, pt, tc, hy, tm, cn>>

NextAff ==
    \/ \E mask \in AfMasks, cpu \in AfCpus : AfSetAffinity(mask, cpu)
    \/ \E dst_cpu \in AfCpus, others \in BOOLEAN : AfPassive(dst_cpu, others)
    \/ \E new_cpu \in AfCpus : AfTickKick(new_cpu)
    \/ \E balancer \in AfCpus : AfLbKick(balancer)
    \/ \E others \in BOOLEAN : AfStopper(others)

SpecAff == InitAff /\ [][NextAff]_vars

\* ============================== the counts of big and small tasks, SpecCnt
\* hmp_stats.nr_big_tasks and nr_small_tasks of the run queue of one little
\* CPU (CPU 0 of SpecSel, load_scale_factor 2048) and of its cfs_rqs (root,
\* g1, g2 with the tasks t1, t2, t3 of the topology above), while tasks are
\* enqueued and dequeued, their demand changes, group queues are throttled
\* and released, and the tunables are written.  Loads and thresholds are in
\* percent of max_task_load(); cn.u holds the tunables as in SpecTune;
\* cn.bug records a BUG_ON() of dec_nr_big_small_task() or
\* dec_throttled_cfs_rq_hmp_stats() that fired.  Every action is one
\* section under rq->lock.
MaxCnTunes == 1

CnStats == Queues \cup {"rq"}
CnLoads == {4, 38, 45}
\* the tasks whose demand changes; t2 keeps its load, between the thresholds
CnChanging == {"t1", "t3"}
CnNice == [p \in Tasks |-> IF p = "t3" THEN 10 ELSE 0]
CnTunables == {"upmigrate_pct", "downmigrate_pct", "small_task_pct", "upmigrate_min_nice"}
CnValues == {0, 70}

\* what is_big_task() and is_small_task() read
CnMachine(c) ==
    [rq |-> [i \in {0} |-> [load_scale_factor |-> 2048]],
     max_load_scale_factor |-> 2048,
     sched_upmigrate |-> c.u.applied["upmigrate_pct"],
     sched_small_task |-> c.u.applied["small_task_pct"],
     sched_upmigrate_min_nice |-> c.u.applied["upmigrate_min_nice"],
     upmigrate_discouraged |-> FALSE]

inc_nr_big_small_task(c, stats, p) ==
    IF ~c.u.sched_enable_hmp THEN c
    ELSE IF is_big_task(CnMachine(c), c.t[p]) THEN [c EXCEPT !.nr_big_tasks[stats] = @ + 1]
    ELSE IF is_small_task(CnMachine(c), c.t[p]) THEN [c EXCEPT !.nr_small_tasks[stats] = @ + 1]
    ELSE c

dec_nr_big_small_task(c, stats, p) ==
    IF ~c.u.sched_enable_hmp THEN c
    ELSE With([c1 \in {IF is_big_task(CnMachine(c), c.t[p])
                       THEN [c EXCEPT !.nr_big_tasks[stats] = @ - 1]
                       ELSE IF is_small_task(CnMachine(c), c.t[p])
                       THEN [c EXCEPT !.nr_small_tasks[stats] = @ - 1]
                       ELSE c} |->
         [c1 EXCEPT !.bug = @ \/ c1.nr_big_tasks[stats] < 0
                                \/ c1.nr_small_tasks[stats] < 0]])

inc_throttled_cfs_rq_hmp_stats(c, stats, q) ==
    [c EXCEPT !.nr_big_tasks[stats] = @ + c.nr_big_tasks[q],
              !.nr_small_tasks[stats] = @ + c.nr_small_tasks[q]]

dec_throttled_cfs_rq_hmp_stats(c, stats, q) ==
    With([c1 \in {[c EXCEPT !.nr_big_tasks[stats] = @ - c.nr_big_tasks[q],
                            !.nr_small_tasks[stats] = @ - c.nr_small_tasks[q]]} |->
        [c1 EXCEPT !.bug = @ \/ c1.nr_big_tasks[stats] < 0
                               \/ c1.nr_small_tasks[stats] < 0]])

\* se->on_rq of a task or of a group entity; cfs_rq->load.weight != 0
CnOnRq(c, e) == IF e \in Tasks THEN c.t[e].queued ELSE c.on_rq[e]

CnSetOnRq(c, e, v) ==
    IF e \in Tasks THEN [c EXCEPT !.t[e].queued = v] ELSE [c EXCEPT !.on_rq[e] = v]

CnLoadWeight(c, q) == \E e \in Entities : cfs_rq_of(e) = q /\ CnOnRq(c, e)

\* throttle_cfs_rq(): the walk up from the entity of the throttled queue
RECURSIVE throttle_hmp_walk(_, _, _, _)
throttle_hmp_walk(c, q, e, dequeue) ==
    IF e = NULL THEN dec_throttled_cfs_rq_hmp_stats(c, "rq", q)
    ELSE IF ~CnOnRq(c, e) THEN c
    ELSE With([c1 \in {IF dequeue THEN CnSetOnRq(c, e, FALSE) ELSE c} |->
         With([c2 \in {dec_throttled_cfs_rq_hmp_stats(c1, cfs_rq_of(e), q)} |->
             throttle_hmp_walk(c2, q, parent_entity(e),
                               dequeue /\ ~CnLoadWeight(c2, cfs_rq_of(e)))])])

throttle_cfs_rq_hmp(c, q) ==
    [throttle_hmp_walk(c, q, tg_se(q), TRUE) EXCEPT !.throttled[q] = TRUE]

\* enqueue_entity(): on_rq, and check_enqueue_throttle() for the first
\* entity of a queue; dry are the queues that get no runtime then
enqueue_entity_hmp(c, q, e, dry) ==
    With([c1 \in {CnSetOnRq(c, e, TRUE)} |->
        IF ~CnLoadWeight(c, q) /\ q \in dry /\ ~c.throttled[q]
        THEN throttle_cfs_rq_hmp(c1, q) ELSE c1])

\* the second loop of enqueue_task_fair() and the rq's count; also the loop
\* of _inc_hmp_sched_stats_fair()
RECURSIVE _inc_hmp_sched_stats_fair(_, _, _)
_inc_hmp_sched_stats_fair(c, p, e) ==
    IF e = NULL THEN inc_nr_big_small_task(c, "rq", p)
    ELSE With([c1 \in {inc_nr_big_small_task(c, cfs_rq_of(e), p)} |->
         IF c1.throttled[cfs_rq_of(e)] THEN c1
         ELSE _inc_hmp_sched_stats_fair(c1, p, parent_entity(e))])

RECURSIVE enqueue_task_fair_hmp(_, _, _, _)
enqueue_task_fair_hmp(c, p, e, dry) ==
    IF e = NULL \/ CnOnRq(c, e) THEN _inc_hmp_sched_stats_fair(c, p, e)
    ELSE With([c1 \in {enqueue_entity_hmp(c, cfs_rq_of(e), e, dry)} |->
         IF c1.throttled[cfs_rq_of(e)] THEN _inc_hmp_sched_stats_fair(c1, p, e)
         ELSE enqueue_task_fair_hmp(inc_nr_big_small_task(c1, cfs_rq_of(e), p),
                                    p, parent_entity(e), dry)])

RECURSIVE _dec_hmp_sched_stats_fair(_, _, _)
_dec_hmp_sched_stats_fair(c, p, e) ==
    IF e = NULL THEN dec_nr_big_small_task(c, "rq", p)
    ELSE With([c1 \in {dec_nr_big_small_task(c, cfs_rq_of(e), p)} |->
         IF c1.throttled[cfs_rq_of(e)] THEN c1
         ELSE _dec_hmp_sched_stats_fair(c1, p, parent_entity(e))])

RECURSIVE dequeue_task_fair_hmp(_, _, _)
dequeue_task_fair_hmp(c, p, e) ==
    IF e = NULL THEN _dec_hmp_sched_stats_fair(c, p, e)
    ELSE With([c1 \in {CnSetOnRq(c, e, FALSE)} |->
         IF c1.throttled[cfs_rq_of(e)] THEN _dec_hmp_sched_stats_fair(c1, p, e)
         ELSE With([c2 \in {dec_nr_big_small_task(c1, cfs_rq_of(e), p)} |->
              IF CnLoadWeight(c2, cfs_rq_of(e))
              THEN _dec_hmp_sched_stats_fair(c2, p, parent_entity(e))
              ELSE dequeue_task_fair_hmp(c2, p, parent_entity(e))])])

\* unthrottle_cfs_rq(): the walk up from the entity of the released queue
RECURSIVE unthrottle_hmp_walk(_, _, _, _, _)
unthrottle_hmp_walk(c, q, e, enqueue, dry) ==
    IF e = NULL THEN inc_throttled_cfs_rq_hmp_stats(c, "rq", q)
    ELSE With([en \in {enqueue /\ ~CnOnRq(c, e)} |->
         With([c1 \in {IF en THEN enqueue_entity_hmp(c, cfs_rq_of(e), e, dry) ELSE c} |->
         With([c2 \in {inc_throttled_cfs_rq_hmp_stats(c1, cfs_rq_of(e), q)} |->
             IF c2.throttled[cfs_rq_of(e)] THEN c2
             ELSE unthrottle_hmp_walk(c2, q, parent_entity(e), en, dry)])])])

unthrottle_cfs_rq_hmp(c, q, dry) ==
    With([c1 \in {[c EXCEPT !.throttled[q] = FALSE]} |->
        IF ~CnLoadWeight(c1, q) THEN c1
        ELSE unthrottle_hmp_walk(c1, q, tg_se(q), TRUE, dry)])

\* fixup_hmp_sched_stats_fair(): fixup_cumulative_runnable_avg() sets
\* p->ravg.demand, the loop puts the old value back before the next level
RECURSIVE fixup_hmp_sched_stats_fair(_, _, _, _, _)
fixup_hmp_sched_stats_fair(c, p, e, old_task_load, new_task_load) ==
    With([c1 \in {dec_nr_big_small_task(c, IF e = NULL THEN "rq" ELSE cfs_rq_of(e), p)} |->
    With([c2 \in {inc_nr_big_small_task([c1 EXCEPT !.t[p].load = new_task_load],
                                        IF e = NULL THEN "rq" ELSE cfs_rq_of(e), p)} |->
        IF e = NULL THEN c2
        ELSE IF c2.throttled[cfs_rq_of(e)] THEN c2
        ELSE fixup_hmp_sched_stats_fair([c2 EXCEPT !.t[p].load = old_task_load],
                                        p, parent_entity(e), old_task_load, new_task_load)])])

RECURSIVE CnCount(_, _)
CnCount(c, todo) ==
    IF todo = {} THEN c
    ELSE With([p \in {CHOOSE x \in todo : TRUE} |->
         CnCount(_inc_hmp_sched_stats_fair(c, p, p), todo \ {p})])

\* fixup_nr_big_small_task(cpu, 1): reset_cpu_hmp_stats() and the walk of
\* rq->cfs_tasks
fixup_nr_big_small_task(c) ==
    CnCount([c EXCEPT !.nr_big_tasks = [x \in CnStats |-> 0],
                      !.nr_small_tasks = [x \in CnStats |-> 0]],
            {p \in Tasks : c.t[p].queued})

InitCnt ==
    /\ se = InitSe
    /\ cfs_rq = InitCfsRq({})
    /\ cfs_b = InitCfsB([q \in Queues |-> RUNTIME_INF], [q \in Queues |-> default_cfs_period])
    /\ rq = InitRq(4 * MSEC, 4 * MSEC)
    /\ task = [p \in Tasks |-> "away"]
    /\ now = 0
    /\ ops = 0
    /\ obs = InitObs
    /\ mig = NULL
    /\ cn = [u |-> InitTuneState(TRUE),
             t |-> [p \in Tasks |->
                       [load |-> 38, nice |-> CnNice[p], cpu |-> 0, queued |-> FALSE]],
             on_rq |-> [g \in Groups |-> FALSE],
             throttled |-> [q \in Queues |-> FALSE],
             nr_big_tasks |-> [x \in CnStats |-> 0],
             nr_small_tasks |-> [x \in CnStats |-> 0],
             bug |-> FALSE,
             recounted |-> 0]
    /\ dist = NULL
    /\ avg = NULL
    /\ tune = NULL
    /\ hmp = NULL
    /\ imb = NULL
    /\ offline = NULL
    /\ det = NULL
    /\ lb = NULL
    /\ ab = NULL
    /\ dl = NULL
    /\ lk = NULL
    /\ ret = NULL
    /\ pt = NULL
    /\ tc = NULL
    /\ hy = NULL
    /\ tm = NULL
    /\ af = NULL

\* enqueue_task_fair()
CnEnqueue(p, dry) ==
    /\ ~cn.t[p].queued
    /\ cn' = enqueue_task_fair_hmp(cn, p, p, dry)
    /\ UNCHANGED <<se, cfs_rq, cfs_b, rq, task, now, ops, obs, mig, dist, avg, tune, hmp, imb, offline, det, lb, ab, dl, lk, ret, pt, tc, hy, tm, af>>

\* dequeue_task_fair()
CnDequeue(p) ==
    /\ cn.t[p].queued
    /\ cn' = dequeue_task_fair_hmp(cn, p, p)
    /\ UNCHANGED <<se, cfs_rq, cfs_b, rq, task, now, ops, obs, mig, dist, avg, tune, hmp, imb, offline, det, lb, ab, dl, lk, ret, pt, tc, hy, tm, af>>

\* the demand of a task changes: through fixup_hmp_sched_stats_fair() when
\* the task is on the run queue
CnLoad(p, new_task_load) ==
    /\ new_task_load # cn.t[p].load
    /\ cn' = IF cn.t[p].queued
             THEN fixup_hmp_sched_stats_fair(cn, p, p, cn.t[p].load, new_task_load)
             ELSE [cn EXCEPT !.t[p].load = new_task_load]
    /\ UNCHANGED <<se, cfs_rq, cfs_b, rq, task, now, ops, obs, mig, dist, avg, tune, hmp, imb, offline, det, lb, ab, dl, lk, ret, pt, tc, hy, tm, af>>

\* check_cfs_rq_runtime() of a queue that has run out: the queue is on the
\* run queue and nothing above it is throttled
CnThrottle(q) ==
    /\ ~cn.throttled[q]
    /\ cn.on_rq[q]
    /\ \A g \in TgAncestors(q) : ~cn.throttled[g]
    /\ cn' = throttle_cfs_rq_hmp(cn, q)
    /\ UNCHANGED <<se, cfs_rq, cfs_b, rq, task, now, ops, obs, mig, dist, avg, tune, hmp, imb, offline, det, lb, ab, dl, lk, ret, pt, tc, hy, tm, af>>

\* distribute_cfs_runtime(): unthrottle_cfs_rq()
CnUnthrottle(q, dry) ==
    /\ cn.throttled[q]
    /\ cn' = With([c \in {unthrottle_cfs_rq_hmp(cn, q, dry)} |->
                 IF cn.recounted = 1 /\ q = "g2" /\ c.nr_big_tasks["rq"] > cn.nr_big_tasks["rq"]
                 THEN [c EXCEPT !.recounted = 2] ELSE c])
    /\ UNCHANGED <<se, cfs_rq, cfs_b, rq, task, now, ops, obs, mig, dist, avg, tune, hmp, imb, offline, det, lb, ab, dl, lk, ret, pt, tc, hy, tm, af>>

\* a write to a tunable: sched_hmp_proc_update_handler(), which holds the
\* lock of every run queue from before set_hmp_defaults() to after the
\* recount when update_task_count is set
CnTune(data, value, stored) ==
    /\ cn.u.ops < MaxCnTunes
    /\ cn' = With([u \in {[sched_hmp_proc_update_handler(cn.u, data, value, stored)
                             EXCEPT !.ops = @ + 1]} |->
             With([c \in {[cn EXCEPT !.u = u]} |->
                 IF update_task_count(data) /\ u.applied # cn.u.applied
                 THEN [fixup_nr_big_small_task(c) EXCEPT
                          !.recounted = IF @ = 0 /\ c.throttled["g2"] /\ c.t["t3"].queued
                                        THEN 1 ELSE @]
                 ELSE c])])
    /\ UNCHANGED <<se, cfs_rq, cfs_b, rq, task, now, ops, obs, mig, dist, avg, tune, hmp, imb, offline, det, lb, ab, dl, lk, ret, pt, tc, hy, tm, af>>

NextCnt ==
    \/ \E p \in Tasks, dry \in SUBSET Groups : CnEnqueue(p, dry)
    \/ \E p \in Tasks : CnDequeue(p)
    \/ \E p \in CnChanging, new_task_load \in CnLoads : CnLoad(p, new_task_load)
    \/ \E q \in Groups : CnThrottle(q)
    \/ \E q \in Groups, dry \in SUBSET Groups : CnUnthrottle(q, dry)
    \/ \E data \in CnTunables, value \in CnValues, stored \in BOOLEAN :
           CnTune(data, value, stored)

SpecCnt == InitCnt /\ [][NextCnt]_vars

\* ================================================================ properties
\* C1 as stated: the stored min_vruntime of every queue never decreases.
C1_NeverDecreases ==
    [][\A q \in Queues : cfs_rq'[q].min_vruntime >= cfs_rq[q].min_vruntime]_vars

\* C1, amended: min_vruntime never moves backwards in the order the code
\* compares virtual times in, the sign of the wrapped difference; as a number
\* it wraps through zero.
C1_NeverMovesBack ==
    [][\A q \in Queues : S64(cfs_rq'[q].min_vruntime - cfs_rq[q].min_vruntime) >= 0]_vars

\* the root queue's min_vruntime has advanced through the wrap
C1_Wrapped ==
    /\ cfs_rq["root"].min_vruntime < U64Mod \div 2
    /\ \E p \in Tasks : se[p].sum_exec_runtime > 0

\* C2: between operations, the entity a queue records as curr is not in that
\* queue's timeline.
C2_CurrNotInTree ==
    \A q \in Queues :
        cfs_rq[q].curr # NULL => ~InSeq(cfs_rq[q].tasks_timeline, cfs_rq[q].curr)

\* an entity that was taken out of a non-empty tree is running on the root
\* queue and is still accounted as queued there
C2_RunningBesideTree ==
    /\ cfs_rq["root"].curr # NULL
    /\ se[cfs_rq["root"].curr].on_rq
    /\ se[cfs_rq["root"].curr].sum_exec_runtime > 0
    /\ cfs_rq["root"].tasks_timeline # <<>>


\* the queues strictly below q on the way up from queue g
Below(g, q) == (({g} \cup TgAncestors(g)) \cap TgSubtree(q)) \ {q}

\* the queued tasks in q's subtree that no throttled queue below q hides
CountedTasks(q) ==
    {p \in Tasks : /\ se[p].on_rq
                   /\ TaskTg[p] \in TgSubtree(q)
                   /\ \A d \in Below(TaskTg[p], q) : ~cfs_rq[d].throttled}

\* C5: every queue's h_nr_running is the number of queued tasks in its
\* subtree, not counting those beneath a throttled descendant queue.
C5_HierarchicalCount ==
    \A q \in Queues : cfs_rq[q].h_nr_running = Cardinality(CountedTasks(q))

\* g2 is throttled with a task queued on it that g1 and the root do not
\* count, while g1 counts a task of its own
C5_HiddenBelowThrottled ==
    /\ cfs_rq["g2"].throttled
    /\ cfs_rq["g2"].h_nr_running = 1
    /\ cfs_rq["g1"].h_nr_running = 1
    /\ se["t2"].on_rq

RECURSIVE SumWeight(_)
SumWeight(S) ==
    IF S = {} THEN 0
    ELSE LET e == CHOOSE x \in S : TRUE IN se[e].weight + SumWeight(S \ {e})

\* C6: while a group's queue is throttled its entity is not enqueued on the
\* parent queue, and the parent's weight is the sum over the entities that
\* are: the throttled group adds nothing to it.
C6_ThrottledOffParent ==
    \A g \in Groups :
        cfs_rq[g].throttled =>
            /\ ~se[g].on_rq
            /\ ~InSeq(cfs_rq[TgParent[g]].tasks_timeline, g)
            /\ cfs_rq[TgParent[g]].nr_running =
                   Cardinality({e \in Entities \ {g} : cfs_rq_of(e) = TgParent[g] /\ se[e].on_rq})
            /\ cfs_rq[TgParent[g]].load_weight =
                   SumWeight({e \in Entities \ {g} : cfs_rq_of(e) = TgParent[g] /\ se[e].on_rq})

\* a task was enqueued on a queue that was throttled and still is
C6_EnqueuedWhileThrottled ==
    /\ obs.enq_throttled
    /\ \E p \in Tasks : cfs_rq[TaskTg[p]].throttled /\ se[p].on_rq /\ task[p] = "queued"

\* C10 as stated: no draw transfers more than one bandwidth slice.
C10_AtMostOneSlice ==
    obs.draw.q # NULL => obs.draw.amount <= sched_cfs_bandwidth_slice

\* C10, amended: a draw tops the local balance up to at most one slice, so
\* it transfers at most one slice plus the deficit the queue had run up.
C10_ToppedUpToOneSlice ==
    obs.draw.q # NULL =>
        /\ obs.draw.before <= 0
        /\ obs.draw.amount <= sched_cfs_bandwidth_slice - obs.draw.before
        /\ obs.draw.amount >= 0

\* a draw that covered a deficit and so moved more than one slice
C10_DrawOverSlice ==
    /\ obs.draw.q # NULL
    /\ obs.draw.before < 0
    /\ obs.draw.amount > sched_cfs_bandwidth_slice


\* C7 as stated: the queue is throttled exactly once in each period.
C7_OncePerPeriod ==
    obs.closed["g1"].full => obs.closed["g1"].nr_throttle = 1

\* C7, amended: the queue is throttled at most once in a period, exactly
\* once in each period it enters un-throttled and not at all in a period it
\* enters still throttled; with a tick shorter than the quota it enters
\* every period un-throttled.
C7_OncePerPeriodEntered ==
    obs.closed["g1"].full =>
        /\ obs.closed["g1"].nr_throttle =
               (IF obs.closed["g1"].entered_throttled THEN 0 ELSE 1)
        /\ (rq.tick_nsec < cfs_b["g1"].quota => ~obs.closed["g1"].entered_throttled)

\* a whole period went by in which the queue was released, ran and was
\* throttled again
C7_ThrottledOnceInPeriod ==
    /\ obs.closed["g1"].full
    /\ ~obs.closed["g1"].entered_throttled
    /\ obs.closed["g1"].nr_throttle = 1
    /\ obs.closed["g1"].charged > 0

\* C8 as stated: the first period-timer expiry after a throttling lifts it.
C8_ReleasedAtFirstExpiry ==
    obs.at_expiry["g1"] # "kept"

\* C8, amended: the expiry lifts the throttle exactly when the deficit the
\* queue ran up is smaller than the quota, which it always is with a tick
\* shorter than the quota; otherwise the queue stays throttled.
C8_ReleasedWhenDeficitCovered ==
    /\ obs.at_expiry["g1"] = "kept" => obs.deficit["g1"] >= cfs_b["g1"].quota
    /\ obs.at_expiry["g1"] = "released" => obs.deficit["g1"] < cfs_b["g1"].quota
    /\ rq.tick_nsec < cfs_b["g1"].quota => obs.at_expiry["g1"] # "kept"

\* an expiry found the queue throttled with a deficit and released it
C8_ReleasedByExpiry ==
    /\ obs.at_expiry["g1"] = "released"
    /\ obs.deficit["g1"] > 0
    /\ ~cfs_rq["g1"].throttled

\* C9 as stated: the time charged within one period is at most the quota
\* plus one bandwidth slice.
C9_WithinQuotaPlusSlice ==
    obs.closed["g1"].full =>
        obs.closed["g1"].charged <= cfs_b["g1"].quota + sched_cfs_bandwidth_slice

\* C9, amended: the time charged within one period is at most the quota
\* plus one tick, the stretch that can run unaccounted.
C9_WithinQuotaPlusTick ==
    obs.closed["g1"].full =>
        obs.closed["g1"].charged <= cfs_b["g1"].quota + rq.tick_nsec

\* a whole period was charged more than the quota
C9_ChargedOverQuota ==
    /\ obs.closed["g1"].full
    /\ obs.closed["g1"].charged > cfs_b["g1"].quota


\* the run-queues whose cfs_tasks list holds p
QueuesHolding(p) == {c \in Cpus : p \in mig.cfs_tasks[c]}

\* C3: when a migration has completed, every task it moved is enqueued on
\* exactly one run-queue, the one of the CPU it now belongs to; and no task
\* is ever enqueued on two.
C3_ExactlyOneQueue ==
    /\ \A p \in mig.completed :
           /\ QueuesHolding(p) = {mig.cpu[p]}
           /\ mig.on_rq[p] = "QUEUED"
    /\ \A p \in Tasks : Cardinality(QueuesHolding(p)) <= 1

\* a migration has just completed that moved a task to CPU 1
C3_MigrationCompleted ==
    \E p \in mig.completed : mig.cpu[p] = 1

\* C4: whenever the lock of a task's run-queue is free, the task is either
\* queued on exactly that run-queue or marked migrating and on none.
C4_ConsistentWhenObservable ==
    \A p \in Tasks :
        mig.lock[mig.cpu[p]] = NULL =>
            \/ mig.on_rq[p] = "QUEUED" /\ QueuesHolding(p) = {mig.cpu[p]}
            \/ mig.on_rq[p] = "MIGRATING" /\ QueuesHolding(p) = {}

\* a task is in flight while the source lock has been released inside
\* double_lock_balance() and no lock that guards it is held
C4_InFlightUnlocked ==
    \E a \in Balancers, p \in Tasks :
        /\ mig.on_rq[p] = "MIGRATING"
        /\ mig.cpu[p] = mig.env[a].src
        /\ mig.lock[mig.env[a].src] = NULL
        /\ mig.todo[a] # <<>>
        /\ Head(mig.todo[a]).op = "lock"

\* C11: for one group, the period timer and the slack timer are never both
\* inside distribute_cfs_runtime().
C11_OneDistribution ==
    Cardinality({t \in DistTimers : dist.pc[t] = "distribute"}) <= 1

\* the period timer fired while the slack timer was distributing, found
\* distribute_running set and left its loop alone
C11_PeriodTurnedAway ==
    /\ dist.pc["slack"] = "distribute"
    /\ dist.pc["period"] = "idle"
    /\ dist.refused

\* how far apart in virtual time the two entities of the root queue are
FairSpread == LET d == S64(se["t1"].vruntime - se["g1"].vruntime) IN IF d < 0 THEN -d ELSE d

\* the slice of either entity when they weigh the same
FairSlice == sched_slice(St, "root", "t1")

\* the start-up phase: the entity that starts behind runs alone until it
\* has caught up, which it has by the first tick after the lead
FairStartUp == FairMaxLead * MSEC + rq.tick_nsec

\* C12 as stated: two never-sleeping entities of equal weight on one queue
\* are, after the start-up phase, never more than one slice apart in
\* virtual time.
C12_WithinOneSlice ==
    se["t1"].weight = se["g1"].weight /\ now >= FairStartUp => FairSpread <= FairSlice

\* C12, amended: they are never more than one slice and one tick apart; the
\* running entity is only checked against its slice at a tick.
C12_WithinSliceAndTick ==
    se["t1"].weight = se["g1"].weight /\ now >= FairStartUp =>
        FairSpread <= FairSlice + rq.tick_nsec

\* after the start-up phase, both have run and they are more than a slice apart
C12_SpreadOverSlice ==
    /\ se["t1"].weight = se["g1"].weight
    /\ now >= FairStartUp
    /\ se["t1"].sum_exec_runtime > 0
    /\ se["g1"].sum_exec_runtime > 0
    /\ FairSpread > FairSlice

\* the gap between the heavier entity's service and twice the lighter one's
FairGap ==
    LET d == se["t1"].sum_exec_runtime - 2 * se["g1"].sum_exec_runtime
    IN IF d < 0 THEN -d ELSE d

\* twice what the two can be apart in virtual time: the lead at the start,
\* one period and one tick
FairGapBound == 2 * (FairMaxLead * MSEC + sysctl_sched_latency + rq.tick_nsec)

\* C13: with weights 2:1 and no sleeping, the heavier entity's execution
\* time stays within a fixed distance of twice the lighter one's, however
\* long they have run.
C13_ServiceGapBounded ==
    se["t1"].weight = 2 * se["g1"].weight => FairGap <= FairGapBound

\* both have been served several periods' worth, two to one within the bound
C13_ServedTwoToOne ==
    /\ se["t1"].weight = 2 * se["g1"].weight
    /\ se["g1"].sum_exec_runtime >= 4 * sysctl_sched_latency
    /\ se["t1"].sum_exec_runtime >= 8 * sysctl_sched_latency

\* how far behind the other entity of the root queue, in virtual time, the
\* entity pick_next_entity() returned is; positive only if the other one is
\* the leftmost candidate and a buddy rule put this one in its place
PickBehind ==
    LET other == CHOOSE e \in PickEntities : e # obs.pick
    IN S64(se[obs.pick].vruntime - se[other].vruntime)

\* the other entity, the leftmost candidate when PickBehind is positive
PickLeft == CHOOSE e \in PickEntities : e # obs.pick

\* C14 as stated: what pick_next_entity() returns is never more than one
\* wakeup granularity behind the leftmost candidate.
C14_WithinOneGranularity ==
    obs.pick # NULL => PickBehind <= sysctl_sched_wakeup_granularity

\* C14, amended: it is never more than the wakeup granularity scaled to the
\* leftmost candidate's weight behind it, unless STRICT_SKIP_BUDDY is set
\* and the leftmost candidate is the skip buddy.
C14_WithinScaledGranularity ==
    obs.pick # NULL /\ ~(rq.strict_skip_buddy /\ cfs_rq["root"].skip = PickLeft) =>
        PickBehind <= wakeup_gran(St, PickLeft)

\* a buddy was returned in place of a leftmost candidate that is ahead of it
C14_BuddyHonoured ==
    /\ obs.pick # NULL
    /\ ~rq.strict_skip_buddy
    /\ PickBehind > 0

\* the aggregate weight and the running counts of every queue and of the CPU
RunCounts(s) ==
    [weight |-> [q \in Queues |-> s.cfs_rq[q].load_weight],
     nr_running |-> [q \in Queues |-> s.cfs_rq[q].nr_running],
     h_nr_running |-> [q \in Queues |-> s.cfs_rq[q].h_nr_running],
     rq_weight |-> s.rq.load_weight,
     rq_nr_running |-> s.rq.nr_running]

\* enqueue_task_fair() of p and then dequeue_task_fair() of p, nothing between
EnqueueDequeue(p, flags) ==
    dequeue_task_fair(
        enqueue_task_fair(update_rq_clock(St), p, flags[1]), p, flags[2])

\* the flags of an enqueue of p and of the dequeue after it: a sleeping task
\* wakes and goes back to sleep, any other is made runnable and taken off
RoundFlags(p) ==
    IF task[p] = "sleeping" THEN <<ENQUEUE_WAKEUP, DEQUEUE_SLEEP>>
    ELSE <<NOFLAG, NOFLAG>>

\* C15 as stated: enqueueing a task that is not queued and dequeueing it at
\* once leaves every queue's weight, nr_running and h_nr_running and the
\* CPU's nr_running as they were.
C15_EnqueueDequeueRestores ==
    \A p \in Tasks : task[p] # "queued" =>
        RunCounts(EnqueueDequeue(p, RoundFlags(p))) = RunCounts(St)

\* the group entities above p whose weight update_cfs_shares() would change
StaleShares(p) ==
    {g \in ({cfs_rq_of(p)} \cup TgAncestors(cfs_rq_of(p))) \ {"root"} :
        /\ se[g].on_rq
        /\ ~throttled_hierarchy(St, g)
        /\ se[g].weight # calc_cfs_shares(St, g)}

\* C15: enqueueing a task that is not queued and dequeueing it at once
\* leaves nr_running and h_nr_running of every queue, the CPU's nr_running
\* and the weight of the task's own queue as they were; the weight of every
\* queue is as it was when no group entity above the task had a weight that
\* update_cfs_shares() was due to change.
C15_EnqueueDequeueRestoresCounts ==
    \A p \in Tasks : task[p] # "queued" =>
        \E before \in {RunCounts(St)} :
            \E after \in {RunCounts(EnqueueDequeue(p, RoundFlags(p)))} :
                /\ after.nr_running = before.nr_running
                /\ after.h_nr_running = before.h_nr_running
                /\ after.rq_nr_running = before.rq_nr_running
                /\ after.weight[cfs_rq_of(p)] = before.weight[cfs_rq_of(p)]
                /\ StaleShares(p) = {} => after = before

\* a task two groups down can be enqueued beside tasks that are queued: its
\* enqueue raises the counts of three queues
C15_EnqueueCounted ==
    /\ task["t3"] # "queued"
    /\ cfs_rq["root"].h_nr_running > 0
    /\ \E s \in {enqueue_task_fair(update_rq_clock(St), "t3", NOFLAG)} :
           /\ s.cfs_rq["root"].h_nr_running = cfs_rq["root"].h_nr_running + 1
           /\ s.cfs_rq["g1"].load_weight > cfs_rq["g1"].load_weight
           /\ s.rq.nr_running = rq.nr_running + 1

\* C16: the load and utilization sums and averages of the queue, read as
\* signed words, are never negative: no subtraction has wrapped around.
C16_NeverBelowZero ==
    /\ S64(avg.q.load_avg) >= 0
    /\ S64(avg.q.load_sum) >= 0
    /\ S64(avg.q.util_avg) >= 0
    /\ S64(avg.q.util_sum) >= 0

\* a subtraction of more than the queue held has been floored at zero
C16_FlooredAtZero ==
    /\ avg.clamped
    /\ avg.q.load_avg = 0

\* C17: when the clock reads no more than the running entity's exec_start,
\* update_curr() changes nothing: not the entity's vruntime, sum_exec_runtime
\* or exec_start, not min_vruntime, not the runtime of the queue or the pool.
C17_NoProgressNoChange ==
    \A q \in Queues :
        (cfs_rq[q].curr # NULL /\ now - se[cfs_rq[q].curr].exec_start <= 0) =>
            \E s \in {update_curr(update_rq_clock(St), q)} :
                /\ s.se = se
                /\ s.cfs_rq = cfs_rq
                /\ s.cfs_b = cfs_b

\* update_curr() has been called with the clock behind exec_start, after an
\* earlier call had charged time
C17_CalledWithClockBehind ==
    /\ obs.delta_exec # <<>>
    /\ obs.delta_exec[1] < 0
    /\ \E e \in Entities : se[e].sum_exec_runtime > 0

\* the tunables that hold a percentage
PctTunables == HmpTunables \ {"upmigrate_min_nice", "min_runtime"}

\* the last write asked for a percentage above 100
TuneAboveHundred ==
    /\ tune.last.data \in PctTunables
    /\ Unsigned(tune.last.value) > 100

\* the last write, carried out, would have left a down-migrate threshold
\* above its up-migrate threshold
TuneInverted ==
    \E pair \in {<<"downmigrate_pct", "upmigrate_pct">>,
                 <<"grp_downmigrate_pct", "grp_upmigrate_pct">>} :
        /\ tune.last.data \in {pair[1], pair[2]}
        /\ \E p \in {[tune.pct EXCEPT ![tune.last.data] = tune.last.value]} :
               Unsigned(p[pair[1]]) > Unsigned(p[pair[2]])

TuneRejected ==
    /\ tune.last.ret = "EINVAL"
    /\ tune.pct[tune.last.data] = tune.last.old_val

\* C18 as stated: a write of a percentage above 100, or one that would leave
\* down-migrate above up-migrate, is answered with an error and the value
\* the tunable had is kept.
C18_InvalidWriteRejected ==
    (tune.last.data # NULL /\ (TuneAboveHundred \/ TuneInverted)) => TuneRejected

\* C18: with HMP scheduling enabled, a write that would leave a down-migrate
\* threshold above its up-migrate threshold, or that asks for more than 100
\* for a percentage other than the two group thresholds, is answered with
\* -EINVAL and the value the tunable had is kept; with HMP scheduling
\* disabled every write is answered with 0 and changes nothing.
C18_InvalidWriteRejectedWhenEnabled ==
    tune.last.data # NULL =>
        /\ (/\ tune.sched_enable_hmp
            /\ \/ TuneInverted
               \/ /\ TuneAboveHundred
                  /\ tune.last.data \notin {"grp_upmigrate_pct", "grp_downmigrate_pct"})
           => TuneRejected
        /\ ~tune.sched_enable_hmp =>
               /\ tune.last.ret = "0"
               /\ tune.pct = InitTuneState(FALSE).pct

\* a write of more than 100 to the small-task percentage was turned down
\* after an earlier write had changed it
C18_TurnedDown ==
    /\ tune.sched_enable_hmp
    /\ tune.last.data = "small_task_pct"
    /\ tune.last.value = 101
    /\ tune.last.ret = "EINVAL"
    /\ tune.pct["small_task_pct"] = 50

\* no CPU the task may run on fits it
NoCpuFits(h, p) ==
    \A c \in p.cpus_allowed \cap h.cpu_active_mask : ~task_will_fit(h, p, c)

\* the CPU that done: of select_best_cpu() is to take when no CPU fits
FallbackOrPrev(l) ==
    IF l.fallback_idle_cpu >= 0 THEN l.fallback_idle_cpu ELSE l.p.cpu

\* the packing pass may move the task
PackingPass(h, l) ==
    /\ l.reason = 0
    /\ ~l.p.wake_to_idle
    /\ h.rq[l.best_cpu].mostly_idle_freq # 0

\* C19 (as stated): select_best_cpu() returns a CPU, and when no allowed CPU
\* fits the task the CPU it returns is the fallback mostly idle CPU recorded
\* during the scan if there is one, and the task's previous CPU otherwise.
C19_NoFitReturnsFallbackOrPrev ==
    hmp.called =>
        /\ hmp.last.ret \in HmpCpus
        /\ NoCpuFits(hmp, hmp.last.p) => hmp.last.ret = FallbackOrPrev(hmp.last)

\* C19: select_best_cpu() returns a CPU.  When no allowed CPU fits the task
\* and the scan has run, the CPU chosen at done: is the fallback mostly idle
\* CPU recorded during the scan if there is one and the task's previous CPU
\* otherwise; a sync wakeup from an allowed CPU takes the waker's CPU without
\* a scan.  The CPU chosen is the one returned unless the packing pass
\* applies, which returns a CPU of the same frequency domain.
C19_NoFitReturnsFallbackOrPrevOrPacked ==
    hmp.called =>
        /\ hmp.last.ret \in HmpCpus
        /\ NoCpuFits(hmp, hmp.last.p) =>
               /\ hmp.last.scanned => hmp.last.best_cpu = FallbackOrPrev(hmp.last)
               /\ ~hmp.last.scanned => hmp.last.best_cpu = hmp.smp_processor_id
               /\ ~PackingPass(hmp, hmp.last) => hmp.last.ret = hmp.last.best_cpu
               /\ hmp.last.ret \in hmp.rq[hmp.last.best_cpu].freq_domain_cpumask

\* no allowed CPU fitted the task, a fallback CPU other than the task's was
\* recorded and returned
C19_FallbackReturned ==
    /\ hmp.called
    /\ NoCpuFits(hmp, hmp.last.p)
    /\ hmp.last.scanned
    /\ hmp.last.fallback_idle_cpu >= 0
    /\ hmp.last.fallback_idle_cpu # hmp.last.p.cpu
    /\ hmp.last.ret = hmp.last.fallback_idle_cpu

\* the last call placed a small task that is not boosted and may run on the
\* two CPUs c0 and c1, c0 mostly idle and c1 busy with room for the task
SmallTaskScenario(c0, c1) ==
    /\ hmp.called
    /\ is_small_task(hmp, hmp.last.p)
    /\ ~hmp.sched_boost
    /\ c0 # c1
    /\ hmp.last.p.cpus_allowed = {c0, c1}
    /\ mostly_idle_cpu(hmp, c0)
    /\ ~mostly_idle_cpu(hmp, c1)
    /\ task_will_fit(hmp, hmp.last.p, c1)

ImbHundredToNone ==
    /\ imb.called
    /\ imb.busiest.group_load = 100
    /\ imb.local.group_load = 0

\* the difference between the two loads once imb.imbalance has moved from A
\* to B
ImbDifferenceAfter ==
    IF 100 - imb.imbalance >= imb.imbalance
    THEN (100 - imb.imbalance) - imb.imbalance
    ELSE imb.imbalance - (100 - imb.imbalance)

\* C21 (as stated): with load 100 on A and 0 on B, the loads differ by less
\* than 100 after the imbalance calculate_imbalance() computed has moved.
C21_MoveNarrowsDifference ==
    ImbHundredToNone => ImbDifferenceAfter < 100

\* C21: with load 100 on A and 0 on B, the loads differ by no more than 100
\* after the imbalance has moved, and by less than 100 when A runs two tasks
\* or more.  When A runs one task and is not group_imbalanced the imbalance
\* is that task's load, 100: the two loads change places.
C21_MoveNeverWidensDifference ==
    ImbHundredToNone =>
        /\ ImbDifferenceAfter <= 100
        /\ imb.busiest.sum_nr_running >= 2 => ImbDifferenceAfter < 100
        /\ (imb.busiest.sum_nr_running = 1 /\ imb.busiest.group_type # group_imbalanced)
               => imb.imbalance = 100

\* the imbalance of half the load was computed for A running two tasks
C21_HalfMoved ==
    /\ ImbHundredToNone
    /\ imb.busiest.sum_nr_running = 2
    /\ imb.imbalance = 50

\* the queues of the groups that were given a quota
BandwidthControlled == {q \in Queues : cfs_b[q].quota # RUNTIME_INF}

\* C22 (as stated): once rq_offline_fair() has run, no queue of a group with
\* a quota is throttled and each holds a positive runtime_remaining.
C22_OfflineLeavesRuntime ==
    offline.done =>
        \A q \in BandwidthControlled :
            ~cfs_rq[q].throttled /\ cfs_rq[q].runtime_remaining > 0

\* C22: once rq_offline_fair() has run, no queue of a group with a quota is
\* throttled, and each such queue that is on the leaf list of the run queue,
\* having held an entity at some time, holds a runtime_remaining of 1 and is
\* no longer runtime_enabled.  A queue that was never on the list is left as
\* it was.
C22_OfflineLeavesListedRuntime ==
    offline.done =>
        \A q \in BandwidthControlled :
            /\ ~cfs_rq[q].throttled
            /\ on_list(St, q) =>
                   cfs_rq[q].runtime_remaining = 1 /\ ~cfs_rq[q].runtime_enabled

\* rq_offline_fair() found a queue throttled and a queue inside a throttled
\* one out of runtime
C22_OfflineUnthrottled ==
    /\ offline.done
    /\ \E q \in offline.throttled : cfs_rq[q].h_nr_running > 0

\* a sync wakeup that wake_to_idle() has not turned into a plain one
SyncWakeup == hmp.called /\ hmp.last.sync /\ ~hmp.last.p.wake_to_idle

\* the waker's CPU was returned at the test of line 3426, before the loop
SyncShortCircuit ==
    SyncWakeup /\ ~hmp.last.scanned /\ hmp.last.best_cpu = hmp.smp_processor_id

\* the waker's CPU runs the waker only, and prefer_idle is set
WakerIdleAndPreferIdle ==
    /\ hmp.rq[hmp.smp_processor_id].nr_running = 1
    /\ \/ hmp.last.reason # 0
       \/ hmp.rq[hmp.smp_processor_id].prefer_idle # 0

SmallTaskCall ==
    /\ hmp.called
    /\ is_small_task(hmp, hmp.last.p)
    /\ ~hmp.sched_boost
    /\ ~hmp.last.sync
    /\ ~hmp.last.p.wake_to_idle

\* the CPUs of the task's mask that are mostly idle
MostlyIdleAllowed ==
    {c \in hmp.last.p.cpus_allowed \cap hmp.cpu_active_mask : mostly_idle_cpu(hmp, c)}

\* of these, the CPUs the do-while loop of best_small_task_cpu() can return:
\* not of the highest capacity, and not idle in a C-state other than 0
LoopCandidates ==
    {c \in MostlyIdleAllowed :
        /\ hmp.rq[c].capacity # hmp.max_capacity
        /\ ~(idle_cpu(hmp, c) /\ hmp.rq[c].cstate # 0)}

\* the idle CPUs in a deeper C-state that the loop notes
DeepIdleCandidates ==
    {c \in MostlyIdleAllowed :
        /\ hmp.rq[c].capacity # hmp.max_capacity
        /\ idle_cpu(hmp, c) /\ hmp.rq[c].cstate # 0}

Detached == {det.log[i] : i \in 1..Len(det.log)}

\* the destination CPU has less capacity than the source CPU
DstLowerCapacity == cpu_capacity(det, det.dst_cpu) < cpu_capacity(det, det.src_cpu)

\* the destination CPU has more capacity than the source CPU
DstHigherCapacity == cpu_capacity(det, det.dst_cpu) > cpu_capacity(det, det.src_cpu)

\* C25 (as stated): detach_tasks() detaches no big task for a destination CPU
\* of a lower capacity while other big tasks are on the source run queue.
C25_NoBigTaskToLowerCapacity ==
    det.called /\ DstLowerCapacity =>
        \A l \in Detached : ~(is_big_task(det, l.p) /\ l.nr_big_tasks > 1)

\* C25: for a destination CPU of a higher capacity, detach_tasks() detaches
\* only big tasks while a big task is on the source run queue.  For a
\* destination CPU of a lower capacity, a task that does not fit there is
\* detached only if sched_boost is on or a first pass over the list has
\* detached nothing, and only if the busiest group runs more tasks than it
\* has CPUs; other big tasks on the source run queue do not matter.
C25_BigTasksFirstToHigherCapacity ==
    det.called =>
        \A l \in Detached :
            /\ DstHigherCapacity /\ l.nr_big_tasks > 0 => is_big_task(det, l.p)
            /\ DstLowerCapacity /\ ~task_will_fit(det, l.p, det.dst_cpu) =>
                   /\ det.sched_boost \/ l.redo
                   /\ det.busiest_nr_running >
                          (det.busiest_grp_capacity + SCHED_CAPACITY_SCALE - 1)
                              \div SCHED_CAPACITY_SCALE

\* a big task was detached for a CPU of a higher capacity and a task that is
\* not big stayed behind
C25_BigTaskPulledUp ==
    /\ det.called
    /\ DstHigherCapacity
    /\ \E l \in Detached : is_big_task(det, l.p)
    /\ \E i \in 1..Len(det.cfs_tasks) :
           /\ ~is_big_task(det, det.cfs_tasks[i])
           /\ det.cfs_tasks[i].id # det.curr
           /\ det.dst_cpu \in det.cfs_tasks[i].cpus_allowed
           /\ ~det.cfs_tasks[i].throttled

\* the env and the source run queue as they were when the task of the log
\* entry l was detached
EnvAt(l) == [det EXCEPT !.flags = l.flags, !.cfs_tasks = <<l.p>> \o l.cfs_tasks]

\* another task of the source run queue that can_migrate_task() would have let go
OtherCouldMigrate(l) ==
    \E i \in 1..Len(l.cfs_tasks) : can_migrate_task_env(EnvAt(l), l.cfs_tasks[i]).ret

PeriodicAttempt == lb.last.path # "none" /\ lb.last.idle # CPU_NEWLY_IDLE

\* the interval after the tune up of out_one_pinned
TunedUp(all_pinned) ==
    IF \/ all_pinned /\ lb.last.balance_interval < MAX_PINNED_INTERVAL
       \/ lb.last.balance_interval < lb.max_interval
    THEN 2 * lb.last.balance_interval
    ELSE lb.last.balance_interval

\* C27 (as stated): a periodic call of load_balance() that moves no task, or
\* finds every task pinned, doubles sd->balance_interval.
C27_FailedAttemptDoublesInterval ==
    PeriodicAttempt /\ lb.last.path \in {"no_move", "out_all_pinned"} =>
        lb.balance_interval = 2 * lb.last.balance_interval

\* C27: a periodic call of load_balance() that finds every task pinned
\* doubles sd->balance_interval if it is below MAX_PINNED_INTERVAL or below
\* max_interval and leaves it otherwise.  One that moves no task for another
\* reason sets it to min_interval, unless it asks for an active balance: if
\* it starts one, the interval is doubled if below max_interval; if the task
\* running on the busiest CPU is not allowed here, the interval is tuned up
\* as for pinned tasks.
C27_FailedAttemptInterval ==
    PeriodicAttempt =>
        /\ lb.last.path = "out_all_pinned" => lb.balance_interval = TunedUp(TRUE)
        /\ lb.last.end = "curr_pinned" => lb.balance_interval = TunedUp(TRUE)
        /\ lb.last.end \in {"reset", "pending"} => lb.balance_interval = lb.min_interval
        /\ lb.last.end = "kicked" =>
               lb.balance_interval =
                   IF lb.last.balance_interval < lb.max_interval
                   THEN 2 * lb.last.balance_interval
                   ELSE lb.last.balance_interval

\* a periodic call found every task pinned and doubled an interval that was
\* at max_interval already
C27_PinnedDoubled ==
    /\ PeriodicAttempt
    /\ lb.last.path = "out_all_pinned"
    /\ lb.last.balance_interval = lb.max_interval
    /\ lb.balance_interval = 2 * lb.max_interval

CounterExceeded ==
    /\ PeriodicAttempt
    /\ lb.last.path = "no_move"
    /\ ~lb.last.o.hmp_active
    /\ lb.last.nr_balance_failed + 1 > lb.cache_nice_tries + NEED_ACTIVE_BALANCE_THRESHOLD

\* C29 (as stated): a periodic call of load_balance() that moves no task and
\* brings the failure counter above cache_nice_tries +
\* NEED_ACTIVE_BALANCE_THRESHOLD asks for an active balance of the busiest
\* run queue.
C29_FailuresKickActiveBalance ==
    CounterExceeded => lb.active_balance

\* C29: such a call asks for an active balance of the busiest run queue if
\* the task running there is allowed on this CPU: it starts one unless one
\* is under way already, and sets the counter to cache_nice_tries +
\* NEED_ACTIVE_BALANCE_THRESHOLD - 1.  If that task is not allowed here it
\* asks for none and the counter stays.  With that task allowed, the counter
\* is never left above cache_nice_tries + NEED_ACTIVE_BALANCE_THRESHOLD.
C29_FailuresKickActiveBalanceIfAllowed ==
    /\ CounterExceeded /\ lb.last.o.curr_allowed =>
           /\ lb.active_balance
           /\ lb.last.end = IF lb.last.active_balance THEN "pending" ELSE "kicked"
           /\ lb.nr_balance_failed =
                  lb.cache_nice_tries + NEED_ACTIVE_BALANCE_THRESHOLD - 1
    /\ CounterExceeded /\ ~lb.last.o.curr_allowed =>
           /\ lb.last.end = "curr_pinned"
           /\ lb.active_balance = lb.last.active_balance
           /\ lb.nr_balance_failed = lb.last.nr_balance_failed + 1
    /\ PeriodicAttempt /\ lb.last.path = "no_move" /\ lb.last.o.curr_allowed =>
           lb.nr_balance_failed <= lb.cache_nice_tries + NEED_ACTIVE_BALANCE_THRESHOLD

\* an active balance was started by the call that brought the counter from
\* cache_nice_tries + NEED_ACTIVE_BALANCE_THRESHOLD to one more, with nothing
\* else asking for it
C29_KickedAfterFailures ==
    /\ CounterExceeded
    /\ lb.last.nr_balance_failed = lb.cache_nice_tries + NEED_ACTIVE_BALANCE_THRESHOLD
    /\ ~lb.last.o.asym_packing /\ ~lb.last.o.reduced_capacity
    /\ lb.last.end = "kicked"

\* the requests for an active balance of the run queue that are under way:
\* set by a caller and not yet handed to the stopper, queued as
\* active_balance_work, or being served by active_load_balance_cpu_stop()
Outstanding ==
    Cardinality({c \in AbCallers : ab.rc[c]}) + ab.work
        + (IF ab.pc["stopper"] = "locked" THEN 1 ELSE 0)

\* C30: at most one request for an active balance of a run queue is
\* outstanding, there is one exactly while rq->active_balance is set, and the
\* caller that hands active_balance_work to the stopper is the one that
\* changed rq->active_balance from clear to set under rq->lock.
C30_OneActiveBalanceRequest ==
    /\ Outstanding <= 1
    /\ ab.active_balance <=> Outstanding = 1
    /\ ab.dispatch.by = ab.dispatch.setter
    /\ \A c \in AbCallers : ab.rc[c] => ab.setter = c

\* one caller has handed its request to the stopper and another, that
\* found rq->active_balance set, has returned without one
C30_SecondCallerRefused ==
    /\ ab.work = 1
    /\ ab.dispatch.by = "lb1"
    /\ ab.pc["tick"] = "unlocked"
    /\ ~ab.rc["tick"]
    /\ ab.active_balance

\* C31: the loop of distribute_cfs_runtime() gives runtime to a queue and
\* calls unthrottle_cfs_rq() for it only if the queue is throttled when
\* tested under rq->lock; a queue found un-throttled there keeps its
\* runtime_remaining and runtime_expires, and unthrottle_cfs_rq() is never
\* called for a queue that is not throttled.
C31_DistributeOnlyToThrottled ==
    /\ ~dl.twice
    /\ dl.last.cpu # NULL =>
           /\ dl.last.unthrottled => dl.last.throttled
           /\ dl.last.runtime > 0 => dl.last.throttled
           /\ ~dl.last.throttled =>
                  /\ dl.q[dl.last.cpu] = dl.last.before
                  /\ ~dl.last.unthrottled

\* the loop took an entry of the list, the queue was un-throttled by
\* unthrottle_offline_cfs_rqs() before the loop had its rq->lock, and the
\* loop found it so
C31_UnthrottledMeanwhile ==
    /\ dl.last.cpu # NULL
    /\ ~dl.last.throttled
    /\ dl.raced
    /\ dl.timer.remaining > 0

\* the lock thread t spins on, if any
Wants(t) ==
    IF lk.todo[t] # <<>> /\ Head(lk.todo[t])[1] = "lock" THEN Head(lk.todo[t])[2] ELSE "none"

\* the threads of S all spin on locks that threads of S own
WaitCycle(S) ==
    \A t \in S : Wants(t) # "none" /\ lk.owner[Wants(t)] \in S

\* C32: no thread holds cfs_b->lock while it acquires an rq->lock, and no
\* set of threads waits in a cycle, each for a lock that another of the set
\* (or itself) holds.
C32_NoLockCycle ==
    /\ \A t \in LkThreads : Wants(t) \in LkCpus => lk.owner[LkPool] # t
    /\ \A S \in SUBSET LkThreads : S # {} => ~WaitCycle(S)

\* the period timer spins on the rq->lock of a CPU that itself spins on
\* cfs_b->lock, which the slack timer holds
C32_NestedWait ==
    /\ Wants("period") = "cpu0"
    /\ lk.owner["cpu0"] = "cpu0"
    /\ Wants("cpu0") = LkPool
    /\ lk.owner[LkPool] = "slack"

\* return_cfs_rq_runtime() was called for a bandwidth-controlled queue that
\* is empty and holds more than min_cfs_rq_runtime
EmptiedWithSlack ==
    /\ ret.called
    /\ cfs_rq["g1"].runtime_enabled
    /\ cfs_rq["g1"].nr_running = 0
    /\ ret.runtime_remaining > min_cfs_rq_runtime

\* C33 (as stated): when a bandwidth-controlled queue becomes empty with
\* more than min_cfs_rq_runtime of runtime, the excess goes to the pool.
C33_SlackReturned ==
    EmptiedWithSlack =>
        cfs_b["g1"].runtime = ret.runtime + (ret.runtime_remaining - min_cfs_rq_runtime)

\* C33: when a bandwidth-controlled queue becomes empty with more than
\* min_cfs_rq_runtime of runtime, its runtime_remaining is cut to
\* min_cfs_rq_runtime; the excess goes to the pool if the group has a quota
\* and the queue's runtime_expires is the pool's, and is dropped otherwise.
\* In every other case neither balance changes.
C33_SlackReturnedIfCurrent ==
    ret.called =>
        IF EmptiedWithSlack
        THEN /\ cfs_rq["g1"].runtime_remaining = min_cfs_rq_runtime
             /\ cfs_b["g1"].runtime =
                    IF cfs_b["g1"].quota # RUNTIME_INF
                       /\ cfs_rq["g1"].runtime_expires = cfs_b["g1"].runtime_expires
                    THEN ret.runtime + (ret.runtime_remaining - min_cfs_rq_runtime)
                    ELSE ret.runtime
        ELSE /\ cfs_rq["g1"].runtime_remaining = ret.runtime_remaining
             /\ cfs_b["g1"].runtime = ret.runtime

\* a queue emptied with slack from a period that the pool has left behind:
\* the slack is dropped
C33_StaleSlackDropped ==
    /\ EmptiedWithSlack
    /\ cfs_b["g1"].quota # RUNTIME_INF
    /\ cfs_rq["g1"].runtime_expires # cfs_b["g1"].runtime_expires
    /\ cfs_b["g1"].runtime = ret.runtime
    /\ cfs_rq["g1"].runtime_remaining = min_cfs_rq_runtime

\* what the current entity of the root queue has run since it was picked
RanSincePick ==
    se[cfs_rq["root"].curr].sum_exec_runtime - se[cfs_rq["root"].curr].prev_sum_exec_runtime

\* the last step was a tick with two entities on the root queue
Ticked == pt.last = "tick" /\ cfs_rq["root"].curr # NULL /\ cfs_rq["root"].nr_running > 1

\* C34 (as stated): a tick asks for no reschedule when the current entity
\* has run for less than sysctl_sched_min_granularity since it was picked.
C34_NoPreemptBelowGranularity ==
    Ticked /\ RanSincePick < sysctl_sched_min_granularity => ~rq.need_resched

\* C34: a tick asks for no reschedule when the current entity has run for
\* less than sysctl_sched_min_granularity since it was picked and for no
\* more than its sched_slice(); it asks for one whenever the entity has run
\* for more than its sched_slice(), however short that is.
C34_NoPreemptBelowGranularityAndSlice ==
    Ticked =>
        /\ RanSincePick < sysctl_sched_min_granularity
             /\ RanSincePick <= sched_slice(St, "root", cfs_rq["root"].curr)
               => ~rq.need_resched
        /\ RanSincePick > sched_slice(St, "root", cfs_rq["root"].curr) => rq.need_resched

\* a tick asked for a reschedule of an entity that had run for less than
\* sysctl_sched_min_granularity and more than its slice
C34_ShortSlicePreempted ==
    /\ Ticked
    /\ RanSincePick < sysctl_sched_min_granularity
    /\ RanSincePick > sched_slice(St, "root", cfs_rq["root"].curr)
    /\ rq.need_resched

\* queue q or a queue above it is throttled
ThrottledAbove(q) ==
    \E a \in {q} \cup TgAncestors(q) : a # "root" /\ cfs_rq[a].throttled

\* C35: a group queue that has had its first enqueue (throttle_uptodate) has
\* a throttle_count other than 0 exactly when it or one of its ancestors on
\* the CPU is throttled, whatever the order of throttles, un-throttles,
\* first enqueues and creations of groups.
C35_ThrottleCountInSync ==
    \A q \in Groups :
        cfs_rq[q].throttle_uptodate => (cfs_rq[q].throttle_count # 0 <=> ThrottledAbove(q))

\* g2 was created while g1 was throttled and had its first enqueue before
\* g1 was released
C35_EnqueuedUnderThrottledParent ==
    /\ "g2" \in tc.created
    /\ cfs_rq["g2"].throttle_uptodate
    /\ cfs_rq["g1"].throttled
    /\ ~cfs_rq["g2"].throttled
    /\ cfs_rq["g2"].throttle_count = 1

\* the load of the task, scaled to cpu, lies strictly between the thresholds
InBand(cpu) ==
    With([tload \in {scale_load_to_cpu(hy.h, hy.p.load, cpu)} |->
        hy.h.sched_downmigrate < tload /\ tload < hy.h.sched_upmigrate])

\* migration_needed() answered for the task on a CPU below the largest capacity
CheckedOnLower ==
    /\ hy.last.kind = "check"
    /\ hy.h.rq[hy.last.cpu].capacity < hy.h.max_capacity
    /\ InBand(hy.last.cpu)

\* task_will_fit() answered for a CPU of a lower capacity than the task's
FitAskedForLower ==
    /\ hy.last.kind = "fit"
    /\ hy.h.rq[hy.last.cpu].capacity < hy.h.rq[hy.p.cpu].capacity
    /\ InBand(hy.last.cpu)

\* C36 as stated: a task whose load is strictly between the down-migration
\* and the up-migration threshold is not flagged for up-migration on a
\* lower-capacity CPU and is not judged to fit a lower-capacity CPU when it
\* is on a higher-capacity one.
C36_NoOscillationInBand ==
    /\ CheckedOnLower => hy.last.rc # UP_MIGRATION
    /\ FitAskedForLower => ~hy.last.fit

\* C36, amended: the same, the first part while sched_boost() is off, the
\* second for a task whose nice value is within sched_upmigrate_min_nice and
\* whose group does not discourage up-migration; with boost on the task is
\* flagged for up-migration, and beyond the nice ceiling or when discouraged
\* it is judged to fit, whatever its load.
C36_NoOscillationInBandUnlessOverridden ==
    /\ CheckedOnLower =>
           IF ~hy.h.sched_boost THEN hy.last.rc # UP_MIGRATION
           ELSE (hy.p.nice <= hy.h.sched_upmigrate_min_nice => hy.last.rc = UP_MIGRATION)
    /\ FitAskedForLower =>
           (hy.last.fit <=> (/\ ~hy.h.sched_boost
                             /\ (\/ hy.p.nice > hy.h.sched_upmigrate_min_nice
                                 \/ hy.h.upmigrate_discouraged)))

\* a task in the band on the big CPU, within the nice ceiling, is found not
\* to fit the little CPU it would fit if it were there
C36_BandTaskStaysUp ==
    /\ FitAskedForLower
    /\ ~hy.h.sched_boost
    /\ hy.p.nice <= hy.h.sched_upmigrate_min_nice
    /\ ~hy.h.upmigrate_discouraged
    /\ ~hy.last.fit
    /\ task_will_fit(hy.h, [hy.p EXCEPT !.cpu = hy.last.cpu], hy.last.cpu)

\* the period timer is armed or its callback is running
TimerPending == tm.hr \in {"enqueued", "callback"}

\* a CPU is in __start_cfs_bandwidth(), between the test of timer_active
\* that failed and start_bandwidth_timer()
Arming == \E c \in TmCpus : tm.pc[c] \in {"start", "bounce"}

\* C37 as stated: whenever the group has a throttled queue (seen with
\* cfs_b->lock free), its period timer is armed or its callback is running.
C37_TimerArmedWhileThrottled ==
    (tm.lock = "free" /\ tm.list # {}) => TimerPending

\* C37, amended: whenever the group has a throttled queue, its period timer
\* is armed, its callback is running, or a CPU that found the timer stopped
\* is in __start_cfs_bandwidth() and arms it; and while the timer is armed
\* timer_active is set.
C37_TimerArmedOrBeingArmed ==
    /\ tm.list # {} => (TimerPending \/ Arming)
    /\ tm.hr = "enqueued" => tm.timer_active

\* the callback went inactive and returned while a CPU that throttled its
\* queue is in the bounce of __start_cfs_bandwidth()
C37_ThrottledDuringTearDown ==
    /\ tm.list # {}
    /\ tm.hr = "inactive"
    /\ tm.lock = "free"
    /\ \E c \in tm.list : tm.pc[c] = "bounce"

\* nothing is left of a request: flag, push task and reservation are clear
AbCleared ==
    /\ ~ab.active_balance
    /\ ab.push_task = NULL
    /\ ab.reserved = {}

\* C38: every request for an active balance completes: once
\* rq->active_balance is set and the work was handed to the stopper, the
\* stopper callback runs and clears the flag, push_task and the reservation
\* of the target CPU, whether it moved a task or not.
C38_ActiveBalanceCompletes ==
    (ab.active_balance /\ ab.work > 0) ~> AbCleared

\* the stopper has served a request without moving a task and left nothing
\* of it
C38_CompletedWithoutMove ==
    /\ ab.last.outcome = "stale"
    /\ ~ab.last.moved
    /\ AbCleared
    /\ ab.pc["stopper"] = "idle"
    /\ ab.work = 0

\* C39: no migration by load_balance() or by an active balance, that of
\* rq->push_task included, puts the task on a CPU that is outside its
\* affinity mask at the moment it is detached.
C39_MigrationWithinAffinity ==
    af.last.by # "none" => af.last.dst \in af.last.allowed

\* the queued tasks that a stats holder counts: those at or below it with
\* no throttled queue between them and it
CnCounted(x) ==
    {p \in Tasks :
        /\ cn.t[p].queued
        /\ x = "rq" \/ x \in {cfs_rq_of(p)} \cup TgAncestors(cfs_rq_of(p))
        /\ \A q \in {cfs_rq_of(p)} \cup TgAncestors(cfs_rq_of(p)) :
               (q # x /\ (x = "rq" \/ x \in TgAncestors(q))) => ~cn.throttled[q]}

CnBig(x) == {p \in CnCounted(x) : is_big_task(CnMachine(cn), cn.t[p])}
CnSmall(x) ==
    {p \in CnCounted(x) : /\ ~is_big_task(CnMachine(cn), cn.t[p])
                          /\ is_small_task(CnMachine(cn), cn.t[p])}

\* C40: the counts of big and of small tasks of a run queue never go
\* negative and the BUG_ON() of dec_nr_big_small_task() never fires,
\* whatever the order of enqueues, dequeues, changes of load and writes to
\* the tunables (and of throttles); the counts of the run queue and of each
\* of its cfs_rqs are the numbers of the queued tasks they count that are
\* big and small by the thresholds in force.
C40_CountsNeverNegative ==
    /\ ~cn.bug
    /\ \A x \in CnStats :
           /\ cn.nr_big_tasks[x] >= 0
           /\ cn.nr_small_tasks[x] >= 0
           /\ cn.nr_big_tasks[x] = Cardinality(CnBig(x))
           /\ cn.nr_small_tasks[x] = Cardinality(CnSmall(x))

\* a write to a tunable made the task of the throttled g2 big, g2 was
\* released and its count added to the run queue, and the task has left
C40_ReclassifiedThenDequeued ==
    /\ cn.recounted = 2
    /\ ~cn.t["t3"].queued
    /\ is_big_task(CnMachine(cn), cn.t["t3"])
    /\ cn.t["t1"].queued
    /\ cn.nr_big_tasks["rq"] = Cardinality(CnBig("rq"))
====
